---- MODULE Spec2Model ----
(***************************************************************************)
(* A model of the patent evidence miner of src/llm/llm_extract_evidence.py *)
(* (EnhancedPatentEvidenceMiner, JSONExtractor) and of the retrying        *)
(* generation call of src/llm/llm_ground_passage.py.                       *)
(*                                                                         *)
(* Text is a sequence of one-character strings.  A generation endpoint's   *)
(* reply is a record [kind, text]: kind "text" carries a non-empty text,   *)
(* "empty" is a response whose text is empty, "rate_limit" is              *)
(* google_exceptions.ResourceExhausted and "error" any other exception.    *)
(***************************************************************************)
EXTENDS Integers, Sequences, FiniteSets, TLC

VARIABLES
    \* ---- the retrying generation call
    impl,          \* "miner": _call_llm_with_retry, "ground": _generate_with_retry
    max_retries,   \* the call's max_retries
    attempt,       \* the loop variable of `for attempt in range(max_retries)`
    ipc,           \* "idle", "attempting", "returned", "raised"
    iret,          \* what the call returned or raised
    outcomes,      \* the endpoint's replies to this call, in order
    waits,         \* the time.sleep durations of this call, in order
    \* ---- the segmenter, called on a document
    description,   \* patent_json.get("description", {})
    segments,      \* the segments _prepare_document_enhanced returned
    spc,           \* "build", "prepared", "raised"
    \* ---- the verifier, called on a quote and a segment sequence
    given_segments, \* the segment sequence given to _verify_quote_enhanced
    given_quote,   \* the quote given to it
    vresult,       \* (status, source_id, context_before, context_after)
    vpc,           \* "build", "done"
    \* ---- EnhancedPatentEvidenceMiner.run, called on a review and a document
    self_max_retries, \* self.max_retries of the miner
    review_json,   \* the review given to run
    rpc,           \* "idle", "parse_call", "evidence_call", "done", "raised"
    arguments,     \* args_data.get("arguments", [])
    loop_idx,      \* idx of the loop over arguments, from 1
    verified_items,
    verified_count,
    partial_count,
    not_found_count,
    errors,
    result,        \* the ExtractionResult run returned
    exception,     \* the exception that left run
    calls,         \* the calls of _call_llm_with_retry so far: 0 for the
                   \* rationale, idx for the assertion at idx
    (* JSONExtractor.extract_json_from_text on its own *)
    raw_text,      \* the text argument, a sequence of lexical tokens
    embedded,      \* the tokens of the object placed in a json fence, <<>>
                   \* when the text was written token by token
    xresult,       \* the value extract_json_from_text returned
    xpc,           \* "input" | "done"
    (* _normalize_whitespace on its own *)
    ntext,         \* the text argument
    normalized,    \* the value _normalize_whitespace returned
    npc,           \* "input" | "done"
    (* load_patent_b *)
    json_files,          \* the documents of the full-content directory, in order
    miner,               \* "miner", or "none": the constructor raised ValueError
    lpc,                 \* "build" | "files" | "reasons" | "done"
    file_idx,            \* the position of json_file in json_files
    reason_idx,          \* the position of reason_json_dict in reason_json
    extraction_results,  \* the list load_patent_b returns
    evidence_files       \* what each document's evidence file holds

ivars == <<impl, max_retries, attempt, ipc, iret, outcomes, waits>>

svars == <<description, segments, spc>>

vvars == <<given_segments, given_quote, vresult, vpc>>

rvars ==
    <<self_max_retries, review_json, rpc, arguments, loop_idx, verified_items,
      verified_count, partial_count, not_found_count, errors, result,
      exception, calls>>

xvars == <<raw_text, embedded, xresult, xpc>>

nvars == <<ntext, normalized, npc>>

lvars ==
    <<json_files, miner, lpc, file_idx, reason_idx, extraction_results,
      evidence_files>>

vars == <<ivars, svars, vvars, rvars, xvars, nvars, lvars>>

----------------------------------------------------------------------------
(* Bounds and program constants *)

\* the largest max_retries a call is started with
MaxRetries == 3

\* the verifier's inputs: segments, characters of all segments, of the quote
MaxSegs == 2
MaxDocChars == 4
MaxQuoteLen == 2

\* the segmenter's inputs: sections, list entries of all sections
MaxSections == 2
MaxParagraphs == 2

\* run's inputs: the miner's max_retries, the assertions of a well-formed
\* rationale response
RunMaxRetries == 2
MaxAssertions == 2

\* initial_wait's default of _generate_with_retry
InitialWait == 2

----------------------------------------------------------------------------
(* The retrying generation call *)

ReplyKinds == {"text", "empty", "rate_limit", "error"}

NoText == <<>>

\* the interpreter raises KeyboardInterrupt inside generate_content: the
\* caller of run is interrupting it
Interrupt == [kind |-> "interrupt", text |-> NoText]

Pending == [kind |-> "pending", text |-> NoText, exc |-> "none"]

ReturnText(t) == [kind |-> "text", text |-> t, exc |-> "none"]

ReturnNone == [kind |-> "None", text |-> NoText, exc |-> "none"]

Raise(e) == [kind |-> "raise", text |-> NoText, exc |-> e]

\* `for attempt in range(n)`: another iteration follows the one of `attempt`
RangeHasNextShort(a, n) == a + 2 < n

RangeHasNext(a, n) == a + 1 < n

\* the replies _call_llm_with_retry answers with another attempt: an empty
\* response.text falls out of the try block, every exception is caught
MinerRetries(kind) == kind \in {"empty", "rate_limit", "error"}

\* the replies _generate_with_retry answers with another attempt
GroundRetries(kind) == kind = "rate_limit"

\* wait_time = initial_wait * (4 ** attempt)
WaitTime(initial_wait, a) == initial_wait * (4 ^ a)

IInit ==
    /\ impl = "none"
    /\ max_retries = 0
    /\ attempt = 0
    /\ ipc = "idle"
    /\ iret = Pending
    /\ outcomes = <<>>
    /\ waits = <<>>

\* a call begins: the loop is entered with attempt = 0
BeginCall(which, n) ==
    /\ impl' = which
    /\ max_retries' = n
    /\ attempt' = 0
    /\ outcomes' = <<>>
    /\ waits' = <<>>
    /\ IF n > 0
       THEN ipc' = "attempting" /\ iret' = Pending
       ELSE ipc' = "returned" /\ iret' = ReturnNone

\* one iteration of the loop of EnhancedPatentEvidenceMiner._call_llm_with_retry
call_llm_with_retry(reply) ==
    /\ ipc = "attempting"
    /\ impl = "miner"
    /\ outcomes' = Append(outcomes, reply)
    /\ UNCHANGED <<impl, max_retries, waits, svars, vvars, rvars, xvars, nvars, lvars>>
    /\ IF reply.kind = Interrupt.kind
       THEN \* KeyboardInterrupt is no Exception: the handler does not catch it
            /\ ipc' = "raised"
            /\ iret' = Raise("KeyboardInterrupt")
            /\ UNCHANGED attempt
       ELSE IF ~MinerRetries(reply.kind)
       THEN \* if response.text: return response.text
            /\ ipc' = "returned"
            /\ iret' = ReturnText(reply.text)
            /\ UNCHANGED attempt
       ELSE IF reply.kind # "empty" /\ attempt = max_retries - 1
       THEN \* except Exception: ... All retry attempts exhausted
            /\ ipc' = "returned"
            /\ iret' = ReturnNone
            /\ UNCHANGED attempt
       ELSE IF RangeHasNext(attempt, max_retries)
       THEN /\ attempt' = attempt + 1
            /\ UNCHANGED <<ipc, iret>>
       ELSE \* the loop ends: return None
            /\ ipc' = "returned"
            /\ iret' = ReturnNone
            /\ UNCHANGED attempt

\* one iteration of the loop of EvidenceExtractionSystem._generate_with_retry
\* (PatentExaminationSystemIntegrated._generate_with_retry is the same loop)
generate_with_retry(reply) ==
    /\ ipc = "attempting"
    /\ impl = "ground"
    /\ outcomes' = Append(outcomes, reply)
    /\ UNCHANGED <<impl, max_retries, svars, vvars, rvars, xvars, nvars, lvars>>
    /\ IF reply.kind \in {"text", "empty"}
       THEN \* return response.text
            /\ ipc' = "returned"
            /\ iret' = ReturnText(reply.text)
            /\ UNCHANGED <<attempt, waits>>
       ELSE IF GroundRetries(reply.kind)
       THEN IF attempt < max_retries - 1
            THEN /\ waits' = Append(waits, WaitTime(InitialWait, attempt))
                 /\ IF RangeHasNext(attempt, max_retries)
                    THEN attempt' = attempt + 1 /\ UNCHANGED <<ipc, iret>>
                    ELSE ipc' = "returned" /\ iret' = ReturnNone /\ UNCHANGED attempt
            ELSE /\ ipc' = "raised"
                 /\ iret' = Raise("ResourceExhausted")
                 /\ UNCHANGED <<attempt, waits>>
       ELSE /\ ipc' = "raised"
            /\ iret' = Raise("Exception")
            /\ UNCHANGED <<attempt, waits>>

----------------------------------------------------------------------------
(* Text: a sequence of characters, a character a string.  The characters   *)
(* outside ASCII are written by their code points.                         *)

IdeographicSpace == "U+3000"
IdeographicComma == "U+3001"
IdeographicFullStop == "U+3002"
LeftCornerBracket == "U+300C"
RightCornerBracket == "U+300D"
LeftLenticularBracket == "U+3010"
RightLenticularBracket == "U+3011"
Pilcrow == "U+00B6"

\* what \s of re and str.strip() take for whitespace
Whitespace == {" ", "\t", "\n", "\r", IdeographicSpace}

IsSpace(c) == c \in Whitespace

\* text.strip(): leading and trailing whitespace removed
RECURSIVE LStrip(_)
LStrip(t) == IF t # <<>> /\ IsSpace(Head(t)) THEN LStrip(Tail(t)) ELSE t

RECURSIVE RStrip(_)
RStrip(t) ==
    IF t # <<>> /\ IsSpace(t[Len(t)]) THEN RStrip(SubSeq(t, 1, Len(t) - 1)) ELSE t

Strip(t) == RStrip(LStrip(t))

\* re.sub(r'\s+', ' ', text): every maximal run of whitespace becomes one space
RECURSIVE CollapseWhitespace(_)
CollapseWhitespace(t) ==
    IF t = <<>> THEN <<>>
    ELSE IF IsSpace(Head(t))
         THEN <<" ">> \o CollapseWhitespace(LStrip(t))
         ELSE <<Head(t)>> \o CollapseWhitespace(Tail(t))

\* the substitution alone, without the strip() of line 724
normalize_whitespace_untrimmed(text) == CollapseWhitespace(text)

\* EnhancedPatentEvidenceMiner._normalize_whitespace
normalize_whitespace(text) == Strip(CollapseWhitespace(text))

\* Python's `sub in text`
Contains(sub, text) ==
    \E p \in 0..(Len(text) - Len(sub)) : SubSeq(text, p + 1, p + Len(sub)) = sub

\* text.find(sub): the least index of an occurrence, -1 when there is none
Find(sub, text) ==
    IF Contains(sub, text)
    THEN CHOOSE p \in 0..(Len(text) - Len(sub)) :
            /\ SubSeq(text, p + 1, p + Len(sub)) = sub
            /\ \A r \in 0..(p - 1) : SubSeq(text, r + 1, r + Len(sub)) # sub
    ELSE -1

\* set(text): the characters of a text
CharSet(t) == {t[i] : i \in 1..Len(t)}

\* text.replace(" ", "")
RemoveSpaces(t) == SelectSeq(t, LAMBDA c : c # " ")

----------------------------------------------------------------------------
(* The segmenter *)

Digits == {"0", "1", "2", "3", "4", "5", "6", "7", "8", "9"}

DigitOf(d) ==
    CASE d = 0 -> "0" [] d = 1 -> "1" [] d = 2 -> "2" [] d = 3 -> "3"
      [] d = 4 -> "4" [] d = 5 -> "5" [] d = 6 -> "6" [] d = 7 -> "7"
      [] d = 8 -> "8" [] d = 9 -> "9"

\* str(n) for n >= 0
RECURSIVE Decimal(_)
Decimal(n) ==
    IF n < 10 THEN <<DigitOf(n)>> ELSE Decimal(n \div 10) \o <<DigitOf(n % 10)>>

\* f"{n:04d}": zero-padded on the left to four digits at least
RECURSIVE ZeroPad(_, _)
ZeroPad(t, width) == IF Len(t) >= width THEN t ELSE ZeroPad(<<"0">> \o t, width)

Format04d(n) == ZeroPad(Decimal(n), 4)

\* the pattern open (\d{4}) close matches text at the 1-based position p;
\* close = "" stands for a pattern without a closing character
MarkerAt(text, p, open, close) ==
    /\ p + 4 + (IF close = "" THEN 0 ELSE 1) <= Len(text)
    /\ text[p] = open
    /\ \A k \in 1..4 : text[p + k] \in Digits
    /\ close # "" => text[p + 5] = close

\* re.search(pattern, text): the digits of the leftmost match, <<>> for None
SearchMarker(text, open, close) ==
    LET hits == {p \in 1..Len(text) : MarkerAt(text, p, open, close)}
    IN  IF hits = {} THEN <<>>
        ELSE LET p == CHOOSE q \in hits : \A r \in hits : q <= r
             IN  SubSeq(text, p + 1, p + 4)

\* the patterns of _extract_paragraph_number, in the order they are tried
MarkerPatterns ==
    << <<"[", "]">>,
       <<LeftLenticularBracket, RightLenticularBracket>>,
       <<Pilcrow, "">> >>

\* the loop of _extract_paragraph_number from pattern k on; <<>> for None
RECURSIVE ExtractFrom(_, _)
ExtractFrom(text, k) ==
    IF k > Len(MarkerPatterns) THEN <<>>
    ELSE LET m == SearchMarker(text, MarkerPatterns[k][1], MarkerPatterns[k][2])
         IN  IF m # <<>> THEN <<"[">> \o m \o <<"]">>
             ELSE ExtractFrom(text, k + 1)

\* _extract_paragraph_number with the first pattern alone
extract_paragraph_number_first_only(text) ==
    LET m == SearchMarker(text, MarkerPatterns[1][1], MarkerPatterns[1][2])
    IN  IF m # <<>> THEN <<"[">> \o m \o <<"]">> ELSE <<>>

\* EnhancedPatentEvidenceMiner._extract_paragraph_number
extract_paragraph_number(text) == ExtractFrom(text, 1)

\* the synthesized id with the entries counted from 1
SynthesizedIdFromOne(section_name, idx) ==
    <<"[">> \o section_name \o <<"_">> \o Format04d(idx + 1) \o <<"]">>

\* f"[{section_name}_{idx:04d}]"
SynthesizedId(section_name, idx) ==
    <<"[">> \o section_name \o <<"_">> \o Format04d(idx) \o <<"]">>

\* f"[{section_name}]"
SectionId(section_name) == <<"[">> \o section_name \o <<"]">>

PatentSegment(id, text, section, index) ==
    [id |-> id, text |-> text, section |-> section, index |-> index]

\* para_num of the paragraph at position idx (from 0) of a list section
ParagraphId(section_name, idx, text) ==
    LET para_num == extract_paragraph_number(text)
    IN  IF para_num # <<>> THEN para_num ELSE SynthesizedId(section_name, idx)

\* a list entry: a string, or something else (a number, a list, a mapping)
StrEntry(text) == [kind |-> "str", text |-> text]
OtherEntry == [kind |-> "other", text |-> <<>>]

\* a section's content: a list of entries, a string, or a nested mapping
ListContent(items) == [kind |-> "list", text |-> <<>>, items |-> items]
StrContent(text) == [kind |-> "str", text |-> text, items |-> <<>>]
MapContent == [kind |-> "dict", text |-> <<>>, items |-> <<>>]

\* the segments of a list section's entries from position k (from 1) on
RECURSIVE ListSegments(_, _, _)
ListSegments(section_name, items, k) ==
    IF k > Len(items) THEN <<>>
    ELSE LET entry == items[k]
             rest == ListSegments(section_name, items, k + 1)
         IN  IF entry.kind = "str" /\ Strip(entry.text) # <<>>
             THEN <<PatentSegment(ParagraphId(section_name, k - 1, entry.text),
                                  entry.text, section_name, k - 1)>> \o rest
             ELSE rest

\* the segments of one (section_name, content) item of the description
SectionSegments(section_name, content) ==
    IF content.kind = "list" THEN ListSegments(section_name, content.items, 1)
    ELSE IF content.kind = "str" /\ Strip(content.text) # <<>>
         THEN <<PatentSegment(SectionId(section_name), content.text,
                              section_name, 0)>>
         ELSE <<>>

\* the loop over desc.items() from section k on
RECURSIVE DescriptionSegments(_, _)
DescriptionSegments(sections, k) ==
    IF k > Len(sections) THEN <<>>
    ELSE SectionSegments(sections[k].name, sections[k].content)
           \o DescriptionSegments(sections, k + 1)

\* a description: kind "dict" with its items in insertion order, "missing"
\* when patent_json has no "description", "other" for a value without items()
Description(kind, sections) == [kind |-> kind, sections |-> sections]

\* EnhancedPatentEvidenceMiner._prepare_document_enhanced: the segments, or
\* the AttributeError of desc.items()
prepare_document_enhanced(desc) ==
    IF desc.kind = "other"
    THEN [raised |-> TRUE, segments |-> <<>>]
    ELSE [raised |-> FALSE, segments |-> DescriptionSegments(desc.sections, 1)]

----------------------------------------------------------------------------
(* The quote verifier *)

\* boundaries of _is_context_valid
Boundaries ==
    {" ", IdeographicFullStop, IdeographicComma, LeftCornerBracket,
     RightCornerBracket, "\n", "\t"}

\* _is_context_valid with the character after the quote left unchecked
is_context_valid_before_only(quote, full_text) ==
    LET quote_pos == Find(quote, full_text)
        before_char == IF quote_pos > 0 THEN full_text[quote_pos] ELSE " "
    IN  quote_pos # -1 /\ before_char \in Boundaries

\* EnhancedPatentEvidenceMiner._is_context_valid
is_context_valid(quote, full_text) ==
    LET quote_pos == Find(quote, full_text)
        before_char == IF quote_pos > 0 THEN full_text[quote_pos] ELSE " "
        after_char ==
            IF quote_pos + Len(quote) < Len(full_text)
            THEN full_text[quote_pos + Len(quote) + 1]
            ELSE " "
    IN  /\ quote_pos # -1
        /\ before_char \in Boundaries
        /\ after_char \in Boundaries

\* threshold: float = 0.85 of _fuzzy_match, as ThresholdNum / ThresholdDen
ThresholdNum == 85
ThresholdDen == 100

\* similarity >= threshold of _fuzzy_match, the comparison made strict
SimilarEnoughStrict(overlap, total) == overlap * ThresholdDen > ThresholdNum * total

\* similarity >= threshold of _fuzzy_match, for similarity = overlap / total
SimilarEnough(overlap, total) == overlap * ThresholdDen >= ThresholdNum * total

\* EnhancedPatentEvidenceMiner._fuzzy_match
fuzzy_match(quote, text) ==
    LET quote_chars == CharSet(RemoveSpaces(normalize_whitespace(quote)))
        text_chars == CharSet(RemoveSpaces(normalize_whitespace(text)))
    IN  IF quote_chars = {} THEN FALSE
        ELSE SimilarEnough(Cardinality(quote_chars \cap text_chars),
                           Cardinality(quote_chars))

VerifyResult(status, id, before, after) ==
    [status |-> status, source_id |-> id,
     context_before |-> before, context_after |-> after]

NotAvailable == <<"N", "/", "A">>

\* the text before in its normalized form, which the code does not take
ContextBeforeNormalized(all_segments, i) ==
    IF i > 1 THEN normalize_whitespace(all_segments[i - 1].text) ELSE <<>>

\* all_segments[i-1].text if i > 0 else "", for the 1-based index i
ContextBefore(all_segments, i) ==
    IF i > 1 THEN all_segments[i - 1].text ELSE <<>>

\* all_segments[i+1].text if i < len(all_segments)-1 else ""
ContextAfter(all_segments, i) ==
    IF i < Len(all_segments) THEN all_segments[i + 1].text ELSE <<>>

\* the second loop of _verify_quote_enhanced, from segment i on
RECURSIVE FuzzyLoop(_, _, _)
FuzzyLoop(quote, all_segments, i) ==
    IF i > Len(all_segments)
    THEN VerifyResult("not_found", NotAvailable, <<>>, <<>>)
    ELSE IF fuzzy_match(quote, all_segments[i].text)
         THEN VerifyResult("partial_match", all_segments[i].id, <<>>, <<>>)
         ELSE FuzzyLoop(quote, all_segments, i + 1)

\* the first loop going on to the next segment when the context of a
\* containing segment is not valid
RECURSIVE ExactLoopSkipping(_, _, _)
ExactLoopSkipping(quote, all_segments, i) ==
    IF i > Len(all_segments)
    THEN FuzzyLoop(quote, all_segments, 1)
    ELSE LET seg == all_segments[i]
             quote_normalized == normalize_whitespace(quote)
             text_normalized == normalize_whitespace(seg.text)
             found == VerifyResult("verified", seg.id,
                                   ContextBefore(all_segments, i),
                                   ContextAfter(all_segments, i))
         IN  IF quote_normalized = text_normalized
             THEN found
             ELSE IF Contains(quote_normalized, text_normalized)
                     /\ is_context_valid(quote, seg.text)
                  THEN found
                  ELSE ExactLoopSkipping(quote, all_segments, i + 1)

\* the first loop of _verify_quote_enhanced, from segment i on
RECURSIVE ExactLoop(_, _, _)
ExactLoop(quote, all_segments, i) ==
    IF i > Len(all_segments)
    THEN FuzzyLoop(quote, all_segments, 1)
    ELSE LET seg == all_segments[i]
             quote_normalized == normalize_whitespace(quote)
             text_normalized == normalize_whitespace(seg.text)
             found == VerifyResult("verified", seg.id,
                                   ContextBefore(all_segments, i),
                                   ContextAfter(all_segments, i))
         IN  IF quote_normalized = text_normalized
             THEN found
             ELSE IF Contains(quote_normalized, text_normalized)
                  THEN IF is_context_valid(quote, seg.text)
                       THEN found
                       ELSE VerifyResult("context_mismatch", seg.id, <<>>, <<>>)
                  ELSE ExactLoop(quote, all_segments, i + 1)

\* EnhancedPatentEvidenceMiner._verify_quote_enhanced
verify_quote_enhanced(quote, all_segments) == ExactLoop(quote, all_segments, 1)

----------------------------------------------------------------------------
(* JSON values, as json.loads builds them.  A number is held in hundredths *)
(* (0.7 is 70); None is the null value.                                    *)

\* the element of a set of one element; Only({e(x) : x \in {v}}) is e(v)
\* with v computed once
Only(S) == CHOOSE x \in S : TRUE

JValue(k, s, n, keys, items) ==
    [k |-> k, s |-> s, n |-> n, keys |-> keys, items |-> items]

JNull == JValue("null", <<>>, 0, <<>>, <<>>)
JBool(b) == JValue("bool", <<>>, IF b THEN 100 ELSE 0, <<>>, <<>>)
JNum(hundredths) == JValue("num", <<>>, hundredths, <<>>, <<>>)
JStr(text) == JValue("str", text, 0, <<>>, <<>>)
JList(items) == JValue("list", <<>>, 0, <<>>, items)
JDict(keys, items) == JValue("dict", <<>>, 0, keys, items)

\* bool(value)
Truthy(v) ==
    CASE v.k = "null" -> FALSE
      [] v.k \in {"bool", "num"} -> v.n # 0
      [] v.k = "str" -> v.s # <<>>
      [] OTHER -> v.items # <<>>

\* d[key] = value, the key a text: a key met again keeps its place and takes
\* the new value
DictPut(d, key, value) ==
    Only({IF \E i \in 1..Len(dd.keys) : dd.keys[i] = key
          THEN LET i == CHOOSE i \in 1..Len(dd.keys) : dd.keys[i] = key
               IN  [dd EXCEPT !.items[i] = value]
          ELSE [dd EXCEPT !.keys = Append(@, key), !.items = Append(@, value)] :
          dd \in {d}})

\* d.get(key, default) of a dict d, the key named as one word
DictGet(d, key, default) ==
    IF \E i \in 1..Len(d.keys) : d.keys[i] = <<key>>
    THEN d.items[CHOOSE i \in 1..Len(d.keys) : d.keys[i] = <<key>>]
    ELSE default

\* the values a for loop over v draws: a list's items, a dict's keys, a
\* string's characters
IterItems(v) ==
    CASE v.k = "list" -> v.items
      [] v.k = "dict" -> [i \in 1..Len(v.keys) |-> JStr(v.keys[i])]
      [] OTHER -> [i \in 1..Len(v.s) |-> JStr(<<v.s[i]>>)]

\* len(v) is defined
HasLen(v) == v.k \in {"list", "dict", "str"}

PyLen(v) == IF v.k = "str" THEN Len(v.s) ELSE Len(v.items)

----------------------------------------------------------------------------
(* A response text, as the sequence of its lexical pieces: JSON            *)
(* punctuation, string literals, numbers, the literals true/false/null,    *)
(* whitespace, code fences, thinking tags and words of prose.  No string   *)
(* literal and no word holds a brace, a fence or a tag.                    *)

Token(t, v, n) == [t |-> t, v |-> v, n |-> n]

Punct(c) == Token("punct", <<c>>, 0)
StrTok(text) == Token("str", text, 0)
NumTok(hundredths) == Token("num", <<>>, hundredths)
LitTok(name) == Token("lit", <<name>>, 0)
WsTok == Token("ws", <<" ">>, 0)
Word(w) == Token("word", <<w>>, 0)
\* the opening of a code block: three grave accents and the word json
FenceJson == Token("fence", <<"GRAVE*3+json">>, 0)
\* three grave accents
Fence == Token("fence", <<"GRAVE*3">>, 0)
ThinkOpen == Token("tag", <<"<thinking>">>, 0)
ThinkClose == Token("tag", <<"</thinking>">>, 0)

\* the least index from i on of a piece that is no whitespace
RECURSIVE SkipWs(_, _)
SkipWs(toks, i) ==
    IF i <= Len(toks) /\ toks[i].t = "ws" THEN SkipWs(toks, i + 1) ELSE i

IsPunct(toks, i, c) == i <= Len(toks) /\ toks[i] = Punct(c)

ParseFail == [ok |-> FALSE, val |-> JNull, next |-> 0]

ParseOk(v, next) == [ok |-> TRUE, val |-> v, next |-> next]

\* the JSON decoder, from piece i on: value, object members, array elements
RECURSIVE ParseValue(_, _)
RECURSIVE ParseMembers(_, _, _)
RECURSIVE ParseElements(_, _, _)

ParseValue(toks, i) ==
    LET j == SkipWs(toks, i) IN
    IF j > Len(toks) THEN ParseFail
    ELSE CASE toks[j].t = "str" -> ParseOk(JStr(toks[j].v), j + 1)
           [] toks[j].t = "num" -> ParseOk(JNum(toks[j].n), j + 1)
           [] toks[j] = LitTok("true") -> ParseOk(JBool(TRUE), j + 1)
           [] toks[j] = LitTok("false") -> ParseOk(JBool(FALSE), j + 1)
           [] toks[j] = LitTok("null") -> ParseOk(JNull, j + 1)
           [] toks[j] = Punct("{") ->
                IF IsPunct(toks, SkipWs(toks, j + 1), "}")
                THEN ParseOk(JDict(<<>>, <<>>), SkipWs(toks, j + 1) + 1)
                ELSE ParseMembers(toks, j + 1, JDict(<<>>, <<>>))
           [] toks[j] = Punct("[") ->
                IF IsPunct(toks, SkipWs(toks, j + 1), "]")
                THEN ParseOk(JList(<<>>), SkipWs(toks, j + 1) + 1)
                ELSE ParseElements(toks, j + 1, <<>>)
           [] OTHER -> ParseFail

ParseMembers(toks, i, acc) ==
    LET j == SkipWs(toks, i)
        c == SkipWs(toks, j + 1)
        after(r) ==
            LET m == SkipWs(toks, r.next)
            IN  IF ~r.ok THEN ParseFail
                ELSE Only({IF IsPunct(toks, m, ",") THEN ParseMembers(toks, m + 1, d)
                           ELSE IF IsPunct(toks, m, "}") THEN ParseOk(d, m + 1)
                           ELSE ParseFail :
                           d \in {DictPut(acc, toks[j].v, r.val)}})
    IN  IF j > Len(toks) \/ toks[j].t # "str" \/ ~IsPunct(toks, c, ":")
        THEN ParseFail
        ELSE Only({after(r) : r \in {ParseValue(toks, c + 1)}})

ParseElements(toks, i, acc) ==
    LET after(r) ==
            LET m == SkipWs(toks, r.next)
            IN  IF ~r.ok THEN ParseFail
                ELSE Only({IF IsPunct(toks, m, ",") THEN ParseElements(toks, m + 1, l)
                           ELSE IF IsPunct(toks, m, "]") THEN ParseOk(JList(l), m + 1)
                           ELSE ParseFail :
                           l \in {Append(acc, r.val)}})
    IN  Only({after(r) : r \in {ParseValue(toks, i)}})

\* what a strategy yields: a value (None is null), or an exception
Yield(v) == [raised |-> FALSE, val |-> v]
Raised == [raised |-> TRUE, val |-> JNull]

\* json.loads(text): the value of the whole text, or JSONDecodeError
json_loads(text) ==
    Only({Only({IF r.ok /\ SkipWs(toks, r.next) > Len(toks)
                THEN Yield(r.val) ELSE Raised :
                r \in {ParseValue(toks, 1)}}) :
          toks \in {text}})

----------------------------------------------------------------------------
(* JSONExtractor *)

IndexesOf(toks, tok) == {i \in 1..Len(toks) : toks[i] = tok}

Min(S) == CHOOSE x \in S : \A y \in S : x <= y
Max(S) == CHOOSE x \in S : \A y \in S : x >= y

\* the pattern of _extract_from_code_block (a json fence, whitespace, a
\* lazily matched object, whitespace, a fence) matched from the fence at i:
\* the first
\* and last index, <<0, 0>> when there is no match from i
CodeBlockFrom(toks, i) ==
    LET b == SkipWs(toks, i + 1)
        ends == {j \in b..Len(toks) :
                    /\ toks[j] = Punct("}")
                    /\ SkipWs(toks, j + 1) <= Len(toks)
                    /\ toks[SkipWs(toks, j + 1)].t = "fence"}
    IN  IF IsPunct(toks, b, "{") /\ ends # {} THEN <<b, Min(ends)>> ELSE <<0, 0>>

\* JSONExtractor._extract_from_code_block
extract_from_code_block(toks) ==
    LET starts == {i \in IndexesOf(toks, FenceJson) : CodeBlockFrom(toks, i) # <<0, 0>>}
    IN  IF starts = {} THEN Yield(JNull)
        ELSE LET g == CodeBlockFrom(toks, Min(starts))
             IN  json_loads(SubSeq(toks, g[1], g[2]))

\* JSONExtractor._extract_from_brackets
extract_from_brackets(toks) ==
    LET opens == IndexesOf(toks, Punct("{"))
        closes == IndexesOf(toks, Punct("}"))
    IN  IF opens # {} /\ closes # {} /\ Min(opens) < Max(closes)
        THEN json_loads(SubSeq(toks, Min(opens), Max(closes)))
        ELSE Yield(JNull)

\* re.sub of _extract_with_regex: every thinking region is removed
RECURSIVE RemoveThinking(_)
RemoveThinking(toks) ==
    LET opens == IndexesOf(toks, ThinkOpen) IN
    IF opens = {} THEN toks
    ELSE LET closes == {j \in IndexesOf(toks, ThinkClose) : j > Min(opens)}
         IN  IF closes = {} THEN toks
             ELSE SubSeq(toks, 1, Min(opens) - 1)
                    \o RemoveThinking(SubSeq(toks, Min(closes) + 1, Len(toks)))

\* the brace pattern of _extract_with_regex matched from the brace before i, at
\* depth 1 or 2: the index of the closing brace, 0 when there is no match
RECURSIVE BalancedEnd(_, _, _)
BalancedEnd(toks, i, depth) ==
    IF i > Len(toks) THEN 0
    ELSE IF toks[i] = Punct("{")
         THEN IF depth = 1 THEN BalancedEnd(toks, i + 1, 2) ELSE 0
    ELSE IF toks[i] = Punct("}")
         THEN IF depth = 1 THEN i ELSE BalancedEnd(toks, i + 1, 1)
    ELSE BalancedEnd(toks, i + 1, depth)

\* JSONExtractor._extract_with_regex
extract_with_regex(text) ==
    LET match(toks) ==
            LET starts == {i \in IndexesOf(toks, Punct("{")) :
                              BalancedEnd(toks, i + 1, 1) # 0}
            IN  IF starts = {} THEN Yield(JNull)
                ELSE json_loads(SubSeq(toks, Min(starts),
                                       BalancedEnd(toks, Min(starts) + 1, 1)))
    IN  Only({match(toks) : toks \in {RemoveThinking(text)}})

\* JSONExtractor._direct_parse
direct_parse(toks) == json_loads(toks)

\* strategy k of extract_json_from_text
Strategy(k, toks) ==
    CASE k = 1 -> extract_from_code_block(toks)
      [] k = 2 -> extract_from_brackets(toks)
      [] k = 3 -> extract_with_regex(toks)
      [] OTHER -> direct_parse(toks)

\* the loop of extract_json_from_text from strategy k on
RECURSIVE ExtractLoop(_, _)
ExtractLoop(k, toks) ==
    IF k > 4 THEN JNull
    ELSE Only({IF ~r.raised /\ Truthy(r.val) THEN r.val ELSE ExtractLoop(k + 1, toks) :
               r \in {Strategy(k, toks)}})

\* JSONExtractor.extract_json_from_text; None is the null value
extract_json_from_text(toks) == ExtractLoop(1, toks)

\* ThinkingExtractor.extract_thinking: the pieces between the first
\* <thinking> and the first </thinking> after it, stripped
extract_thinking(toks) ==
    LET opens == IndexesOf(toks, ThinkOpen)
        closes == IF opens = {} THEN {}
                  ELSE {j \in IndexesOf(toks, ThinkClose) : j > Min(opens)}
        inner == SubSeq(toks, Min(opens) + 1, Min(closes) - 1)
        first == SkipWs(inner, 1)
        last == IF first > Len(inner) THEN 0
                ELSE Max({j \in 1..Len(inner) : inner[j].t # "ws"})
    IN  IF closes = {} THEN <<>> ELSE SubSeq(inner, first, last)

----------------------------------------------------------------------------
(* EnhancedPatentEvidenceMiner.run: its records and the computations of   *)
(* its steps.  A step that meets an operation a value does not support    *)
(* yields the exception Python raises there.                              *)

\* if original_count > 8
QualityLimit == 8

\* if char_count > 100, is_minimal = char_count <= 100
QuoteLimit == 100

IsDict(v) == v.k = "dict"

\* v[:n] is defined
Sliceable(v) == v.k \in {"str", "list"}

\* f"{v:.2f}" is defined
Formattable(v) == v.k \in {"num", "bool"}

\* v > n is defined for a number n
Ordered(v) == v.k \in {"num", "bool"}

\* for x in v is defined
Iterable(v) == v.k \in {"list", "dict", "str"}

\* an entry of errors: the message and the value formatted into it
ErrorEntry(message, about) == [message |-> message, about |-> about]

ExtractionResult(doc_number, total, verified, partial, not_found, items, errs) ==
    [doc_number |-> doc_number, total_assertions |-> total,
     verified_count |-> verified, partial_count |-> partial,
     not_found_count |-> not_found, evidence_items |-> items, errors |-> errs]

\* the early returns of run with the errors left out
FatalResultWithoutErrors(doc_number, errs) ==
    ExtractionResult(doc_number, 0, 0, 0, 0, <<>>, <<>>)

\* the early returns of run: zero counts, no items
FatalResult(doc_number, errs) ==
    ExtractionResult(doc_number, 0, 0, 0, 0, <<>>, errs)

Citation(quote, source_paragraph, character_count, proves, before, after) ==
    [quote |-> quote, source_paragraph |-> source_paragraph,
     character_count |-> character_count, proves |-> proves,
     context_before |-> before, context_after |-> after,
     is_minimal |-> character_count.n <= QuoteLimit * 100,
     is_complete_sentence |-> TRUE]

\* asdict(EvidenceItem(...)) with the status as its value
EvidenceItem(claim_scope, assertion, citations, status, confidence, thinking) ==
    [shape |-> "evidence", claim_scope |-> claim_scope, assertion |-> assertion,
     citations |-> citations, verification_status |-> status,
     confidence_score |-> confidence, thinking_process |-> thinking,
     reason |-> JNull]

\* the item of the not-found branch written as an EvidenceItem that carries
\* an outcome of the verifier
NotFoundItemVerified(claim_scope, assertion, reason) ==
    [shape |-> "evidence", claim_scope |-> claim_scope,
     assertion |-> assertion, citations |-> <<>>,
     verification_status |-> "not_found", confidence_score |-> JNull,
     thinking_process |-> <<>>, reason |-> reason]

\* the item of an assertion the endpoint reported no evidence for
NotFoundItem(claim_scope, assertion, reason) ==
    [shape |-> "found_false", claim_scope |-> claim_scope,
     assertion |-> assertion, citations |-> <<>>,
     verification_status |-> "none", confidence_score |-> JNull,
     thinking_process |-> <<>>, reason |-> reason]

\* review_json.get("examiner_review") or review_json.get("final_decision", "")
ReviewText(review) ==
    LET first == DictGet(review, "examiner_review", JNull)
    IN  IF Truthy(first) THEN first ELSE DictGet(review, "final_decision", JStr(<<>>))

\* the exception of lines 834-839 on args_data, "" when there is none
ReadArgumentsExc(args_data) ==
    IF ~IsDict(args_data) THEN "AttributeError"
    ELSE IF ~HasLen(DictGet(args_data, "arguments", JList(<<>>))) THEN "TypeError"
    ELSE LET confidence == DictGet(args_data, "confidence", JNum(0))
         IN  IF Formattable(confidence) THEN ""
             ELSE IF confidence.k = "str" THEN "ValueError" ELSE "TypeError"

\* the exception of the body of the display loop (lines 857-862) on arg
DisplayExc(arg) ==
    IF ~IsDict(arg) THEN "AttributeError"
    ELSE IF ~Sliceable(DictGet(arg, "assertion", JStr(<<>>))) THEN "TypeError"
    ELSE LET rationale == DictGet(arg, "rationale", JStr(<<>>))
         IN  IF Truthy(rationale) /\ ~Sliceable(rationale) THEN "TypeError" ELSE ""

\* the display loop (lines 855-863) from position k on
RECURSIVE DisplayLoopExc(_, _)
DisplayLoopExc(items, k) ==
    IF k > Len(items) THEN ""
    ELSE IF DisplayExc(items[k]) # "" THEN DisplayExc(items[k])
    ELSE DisplayLoopExc(items, k + 1)

\* the exception of lines 871-877 on arg, which the display loop let pass
PromptExc(arg) ==
    IF DictGet(arg, "assertion", JStr(<<>>)).k # "str" THEN "TypeError" ELSE ""

\* the body of the loop over evidence_list (lines 909-932) on ev
CitationOf(ev, segs) ==
    IF ~IsDict(ev) THEN [exc |-> "AttributeError", citation |-> <<>>]
    ELSE LET quote == DictGet(ev, "quote", JStr(<<>>))
             source_id == DictGet(ev, "source_id", JStr(<<>>))
         IN  IF ~HasLen(quote) THEN [exc |-> "TypeError", citation |-> <<>>]
             ELSE LET char_count == DictGet(ev, "character_count",
                                                JNum(PyLen(quote) * 100))
                  IN  IF ~Ordered(char_count) \/ quote.k # "str"
                      THEN [exc |-> "TypeError", citation |-> <<>>]
                      ELSE Only({[exc |-> "",
                                  citation |->
                                    <<Citation(quote.s,
                                               IF v.status = "verified"
                                               THEN JStr(v.source_id) ELSE source_id,
                                               char_count,
                                               DictGet(ev, "proves", JStr(<<>>)),
                                               v.context_before, v.context_after)>>] :
                                 v \in {verify_quote_enhanced(quote.s, segs)}})

\* the loop over evidence_list from position k on
RECURSIVE CitationsFrom(_, _, _)
CitationsFrom(items, k, segs) ==
    LET after(c) ==
            IF c.exc # "" THEN [exc |-> c.exc, citations |-> <<>>]
            ELSE Only({IF rest.exc # "" THEN rest
                       ELSE [exc |-> "", citations |-> c.citation \o rest.citations] :
                       rest \in {CitationsFrom(items, k + 1, segs)}})
    IN  IF k > Len(items) THEN [exc |-> "", citations |-> <<>>]
        ELSE Only({after(c) : c \in {CitationOf(items[k], segs)}})

\* statuses of lines 941-944
Statuses(citations, segs) ==
    [i \in 1..Len(citations) |-> verify_quote_enhanced(citations[i].quote, segs).status]

\* overall_status with all() and any() exchanged
OverallStatusSwapped(statuses) ==
    IF \E i \in 1..Len(statuses) : statuses[i] = "verified" THEN "verified"
    ELSE IF \A i \in 1..Len(statuses) : statuses[i] = "verified" THEN "partial_match"
    ELSE "not_found"

\* overall_status of lines 945-953
OverallStatus(statuses) ==
    IF \A i \in 1..Len(statuses) : statuses[i] = "verified" THEN "verified"
    ELSE IF \E i \in 1..Len(statuses) : statuses[i] = "verified" THEN "partial_match"
    ELSE "not_found"

\* the local variables of the loop over arguments, and the exception that
\* leaves its body ("" for none)
Frame(exc, items, verified, partial, not_found, errs) ==
    [exc |-> exc, verified_items |-> items, verified_count |-> verified,
     partial_count |-> partial, not_found_count |-> not_found, errors |-> errs]

\* errors.append(...); not_found_count += 1; continue, with the count left out
FailedAssertionUncounted(f, message, assertion) ==
    [f EXCEPT !.errors = Append(@, ErrorEntry(message, assertion))]

\* the failure branch with an item appended for the failed assertion
FailedAssertionWithItem(f, message, assertion) ==
    [f EXCEPT !.errors = Append(@, ErrorEntry(message, assertion)),
              !.not_found_count = @ + 1,
              !.verified_items =
                  Append(@, [shape |-> "found_false",
                             claim_scope |-> JStr(<<"Unknown">>),
                             assertion |-> JStr(assertion), citations |-> <<>>,
                             verification_status |-> "none",
                             confidence_score |-> JNull,
                             thinking_process |-> <<>>,
                             reason |-> JStr(<<>>)])]

\* errors.append(...); not_found_count += 1; continue (lines 881-883, 893-895)
FailedAssertion(f, message, assertion) ==
    [f EXCEPT !.errors = Append(@, ErrorEntry(message, assertion)),
              !.not_found_count = @ + 1]

\* verified_items with the item put in front
ListPrepend(items, item) == <<item>> \o items

\* verified_items.append(item) (lines 967, 972)
ListAppend(items, item) == Append(items, item)

\* the counters with a partial match counted as not found as well
CountedPartialTwice(f, status) ==
    CASE status = "verified" -> [f EXCEPT !.verified_count = @ + 1]
      [] status = "partial_match" -> [f EXCEPT !.partial_count = @ + 1,
                                               !.not_found_count = @ + 1]
      [] OTHER -> [f EXCEPT !.not_found_count = @ + 1]

\* the counter of overall_status incremented
Counted(f, status) ==
    CASE status = "verified" -> [f EXCEPT !.verified_count = @ + 1]
      [] status = "partial_match" -> [f EXCEPT !.partial_count = @ + 1]
      [] OTHER -> [f EXCEPT !.not_found_count = @ + 1]

\* lines 898-967: the endpoint reported evidence
FoundBody(f, arg, res, thinking, segs) ==
    LET evidence_list == DictGet(res, "evidence", JList(<<>>))
        quality_check == DictGet(res, "quality_check", JDict(<<>>, <<>>))
        item(citations, overall_status) ==
            EvidenceItem(DictGet(arg, "claim_scope", JStr(<<"Unknown">>)),
                         DictGet(arg, "assertion", JStr(<<>>)),
                         citations, overall_status,
                         DictGet(quality_check, "confidence", JNum(0)),
                         thinking)
        aggregated(citations, overall_status) ==
            IF ~IsDict(quality_check)
            THEN [Counted(f, overall_status) EXCEPT !.exc = "AttributeError"]
            ELSE [Counted(f, overall_status) EXCEPT
                    !.verified_items =
                        ListAppend(@, item(citations, overall_status))]
        cited(cs) ==
            IF cs.exc # "" THEN [f EXCEPT !.exc = cs.exc]
            ELSE Only({aggregated(cs.citations, overall_status) :
                       overall_status \in
                           {OverallStatus(Statuses(cs.citations, segs))}})
    IN  IF ~Truthy(evidence_list) THEN [f EXCEPT !.not_found_count = @ + 1]
        ELSE IF ~Iterable(evidence_list) THEN [f EXCEPT !.exc = "TypeError"]
        ELSE Only({cited(cs) :
                   cs \in {CitationsFrom(IterItems(evidence_list), 1, segs)}})

\* lines 880-977: the body of the loop from the return of the call on, for
\* the assertion arg and what _call_llm_with_retry returned
EvidenceBody(f, arg, response_2, segs) ==
    LET assertion == DictGet(arg, "assertion", JStr(<<>>))
        extracted(res, thinking) ==
            IF ~Truthy(res)
            THEN FailedAssertion(f, "JSON extraction failed for", assertion.s)
            ELSE IF ~IsDict(res) THEN [f EXCEPT !.exc = "AttributeError"]
            ELSE IF Truthy(DictGet(res, "found", JNull))
            THEN FoundBody(f, arg, res, thinking, segs)
            ELSE [f EXCEPT
                    !.not_found_count = @ + 1,
                    !.verified_items =
                        ListAppend(@, NotFoundItem(
                            DictGet(arg, "claim_scope", JStr(<<"Unknown">>)),
                            assertion,
                            DictGet(res, "reason",
                                    JStr(<<"No matching description in document">>))))]
    IN  IF response_2.kind # "text"
        THEN FailedAssertion(f, "Failed to extract evidence for", assertion.s)
        ELSE Only({extracted(res, thinking) :
                   res \in {extract_json_from_text(response_2.text)},
                   thinking \in {extract_thinking(response_2.text)}})

----------------------------------------------------------------------------
(* run, step by step: to the first generation call, from its return to    *)
(* the loop, the head of the loop, the body of the loop after the call    *)

\* run returns res
Return(res) ==
    /\ rpc' = "done"
    /\ result' = res
    /\ UNCHANGED exception

\* the exception e leaves run
Escape(e) ==
    /\ rpc' = "raised"
    /\ exception' = e
    /\ UNCHANGED result

\* _call_llm_with_retry has returned to run: its frame is gone
CallReturns ==
    /\ impl' = "none"
    /\ max_retries' = 0
    /\ attempt' = 0
    /\ ipc' = "idle"
    /\ iret' = Pending
    /\ outcomes' = <<>>
    /\ waits' = <<>>

\* patent_json.get("doc_number", "Unknown")
DocNumber == "doc_number"

\* lines 766-806: the document is prepared, the review text read and the
\* rationale call begun
RunStart ==
    /\ rpc = "idle"
    /\ LET p == prepare_document_enhanced(description)
           review_text == ReviewText(review_json)
       IN  /\ segments' = p.segments
           /\ spc' = IF p.raised THEN "raised" ELSE "prepared"
           /\ IF p.raised
              THEN /\ Return(FatalResult("ERROR",
                        <<ErrorEntry("Document preparation error", <<>>)>>))
                   /\ UNCHANGED <<ivars, calls>>
              ELSE IF ~Truthy(review_text)
              THEN /\ Return(FatalResult(DocNumber,
                        <<ErrorEntry("No examiner review text provided", <<>>)>>))
                   /\ UNCHANGED <<ivars, calls>>
              ELSE IF review_text.k # "str"
              THEN /\ Escape("TypeError")
                   /\ UNCHANGED <<ivars, calls>>
              ELSE /\ BeginCall("miner", self_max_retries)
                   /\ rpc' = "parse_call"
                   /\ calls' = Append(calls, 0)
                   /\ UNCHANGED <<result, exception>>
    /\ UNCHANGED <<description, vvars, xvars, nvars, lvars, self_max_retries,
                   review_json, arguments, loop_idx, verified_items,
                   verified_count, partial_count, not_found_count, errors>>

\* lines 807-869: from the return of the rationale call to the loop
RunParsed ==
    /\ rpc = "parse_call"
    /\ ipc = "returned"
    /\ CallReturns
    /\ \E args_data \in {extract_json_from_text(iret.text)} :
       LET response_1 == iret
           failed(message) ==
               /\ errors' = Append(errors, ErrorEntry(message, <<>>))
               /\ Return(FatalResult(DocNumber, errors'))
               /\ UNCHANGED arguments
           found == DictGet(args_data, "arguments", JList(<<>>))
           original_count == PyLen(found)
       IN  IF response_1.kind # "text"
           THEN failed("Failed to parse examiner's arguments")
           ELSE IF ~Truthy(args_data)
           THEN failed("Failed to extract JSON from argument parsing")
           ELSE IF ReadArgumentsExc(args_data) # ""
           THEN /\ Escape(ReadArgumentsExc(args_data))
                /\ UNCHANGED <<arguments, errors>>
           ELSE /\ arguments' = found
                /\ errors' =
                     IF original_count > QualityLimit
                     THEN Append(errors,
                                 ErrorEntry("Quality warning: High assertion count",
                                            Decimal(original_count)))
                     ELSE errors
                /\ IF DisplayLoopExc(IterItems(found), 1) # ""
                   THEN Escape(DisplayLoopExc(IterItems(found), 1))
                   ELSE rpc' = "loop" /\ UNCHANGED <<result, exception>>
    /\ loop_idx' = 0
    /\ verified_items' = <<>>
    /\ verified_count' = 0
    /\ partial_count' = 0
    /\ not_found_count' = 0
    /\ UNCHANGED <<svars, vvars, xvars, nvars, lvars, self_max_retries, review_json,
                   calls>>

\* lines 870-879, the head of the loop: the next assertion's call is begun;
\* lines 980-1000 when no assertion is left
RunAssertion ==
    /\ rpc = "loop"
    /\ LET k == loop_idx + 1
           items == IterItems(arguments)
       IN  IF k > Len(items)
           THEN /\ Return(ExtractionResult(DocNumber, PyLen(arguments),
                                           verified_count, partial_count,
                                           not_found_count, verified_items,
                                           errors))
                /\ UNCHANGED <<ivars, loop_idx, calls>>
           ELSE /\ loop_idx' = k
                /\ IF PromptExc(items[k]) # ""
                   THEN /\ Escape(PromptExc(items[k]))
                        /\ UNCHANGED <<ivars, calls>>
                   ELSE /\ BeginCall("miner", self_max_retries)
                        /\ rpc' = "evidence_call"
                        /\ calls' = Append(calls, k)
                        /\ UNCHANGED <<result, exception>>
    /\ UNCHANGED <<svars, vvars, xvars, nvars, lvars, self_max_retries, review_json,
                   arguments, verified_items, verified_count, partial_count,
                   not_found_count, errors>>

\* lines 880-977: the body of the loop from the return of the call on
RunEvidence ==
    /\ rpc = "evidence_call"
    /\ ipc = "returned"
    /\ CallReturns
    /\ \E f \in {EvidenceBody(Frame("", verified_items, verified_count,
                                       partial_count, not_found_count, errors),
                                 IterItems(arguments)[loop_idx], iret, segments)} :
           /\ verified_items' = f.verified_items
           /\ verified_count' = f.verified_count
           /\ partial_count' = f.partial_count
           /\ not_found_count' = f.not_found_count
           /\ errors' = f.errors
           /\ IF f.exc # ""
              THEN Escape(f.exc)
              ELSE rpc' = "loop" /\ UNCHANGED <<result, exception>>
    /\ UNCHANGED <<svars, vvars, xvars, nvars, lvars, self_max_retries, review_json,
                   arguments, loop_idx, calls>>

\* lines 806 and 879: the exception that left _call_llm_with_retry leaves
\* run, which has no handler around either call
RunInterrupted ==
    /\ rpc \in {"parse_call", "evidence_call"}
    /\ ipc = "raised"
    /\ CallReturns
    /\ Escape(iret.exc)
    /\ UNCHANGED <<svars, vvars, xvars, nvars, lvars, self_max_retries, review_json,
                   arguments, loop_idx, verified_items, verified_count,
                   partial_count, not_found_count, errors, calls>>

----------------------------------------------------------------------------
(* load_patent_b: the loop over the documents of the full-content          *)
(* directory and, for each, over the reviews of its AI judge result         *)

\* a document: "ok" has a judge result file with reviews many reviews and
\* contents; "no_reason" has no judge result file; "empty" has an empty
\* review list or empty contents; "unreadable" raises when it is loaded
Document(kind, reviews) == [kind |-> kind, reviews |-> reviews]

\* asdict(miner.run(reason_json_dict, json_contents)): the result of the run
\* on the review at position review of the document at position doc
RunResult(doc, review, errs) == [doc |-> doc, review |-> review, errors |-> errs]

\* an evidence file that was not written
NotWritten == [written |-> FALSE, content |-> <<>>]

\* json.dump(extraction_results, f) into the evidence file of a document
Dumped(results) == [written |-> TRUE, content |-> results]

\* lines 104-114: the list is created and the miner constructed
LoadBegin(made) ==
    /\ lpc = "build"
    /\ miner' = made
    /\ extraction_results' = <<>>
    /\ evidence_files' = [k \in 1..Len(json_files) |-> NotWritten]
    /\ file_idx' = 0
    /\ reason_idx' = 0
    /\ lpc' = "files"
    /\ UNCHANGED <<json_files, ivars, svars, vvars, rvars, xvars, nvars>>

\* lines 116-133: the head of the loop over json_files up to the loop over
\* the reviews; lines 169-172 when loading raises
LoadFile ==
    /\ lpc = "files"
    /\ file_idx < Len(json_files)
    /\ file_idx' = file_idx + 1
    /\ reason_idx' = 0
    /\ lpc' = IF json_files[file_idx + 1].kind = "ok" /\ miner # "none"
              THEN "reasons" ELSE "files"
    /\ UNCHANGED <<json_files, miner, extraction_results, evidence_files,
                   ivars, svars, vvars, rvars, xvars, nvars>>

\* lines 138-167: one review of the document: the run, the result appended
\* when it carries no errors, and the evidence file written; lines 169-172
\* when the run raises
LoadRun(outcome) ==
    /\ lpc = "reasons"
    /\ LET review == reason_idx + 1
           evidence_result ==
               RunResult(file_idx, review,
                         IF outcome = "errors" THEN <<"error">> ELSE <<>>)
       IN  IF outcome = "raises"
           THEN /\ lpc' = "files"
                /\ UNCHANGED <<reason_idx, extraction_results, evidence_files>>
           ELSE /\ extraction_results' =
                      IF evidence_result.errors = <<>>
                      THEN Append(extraction_results, evidence_result)
                      ELSE extraction_results
                /\ evidence_files' =
                      [evidence_files EXCEPT ![file_idx] = Dumped(extraction_results')]
                /\ reason_idx' = review
                /\ lpc' = IF review < json_files[file_idx].reviews
                          THEN "reasons" ELSE "files"
    /\ UNCHANGED <<json_files, miner, file_idx, ivars, svars, vvars, rvars,
                   xvars, nvars>>

\* line 174: return extraction_results
LoadReturn ==
    /\ lpc = "files"
    /\ file_idx = Len(json_files)
    /\ lpc' = "done"
    /\ UNCHANGED <<json_files, miner, file_idx, reason_idx, extraction_results,
                   evidence_files, ivars, svars, vvars, rvars, xvars, nvars>>

----------------------------------------------------------------------------
(* Initial states *)

VerifyNone == VerifyResult("none", <<>>, <<>>, <<>>)

\* no given_quote and no segment yet
VInit ==
    /\ given_segments = <<>>
    /\ given_quote = <<>>
    /\ vresult = VerifyNone
    /\ vpc = "build"

\* load_patent_b has not been called
LInit ==
    /\ json_files = <<>>
    /\ miner = "none"
    /\ lpc = "build"
    /\ file_idx = 0
    /\ reason_idx = 0
    /\ extraction_results = <<>>
    /\ evidence_files = <<>>

\* a document whose description is an empty mapping
SInit ==
    /\ description = Description("dict", <<>>)
    /\ segments = <<>>
    /\ spc = "build"

\* a list of three entries: a blank one, one without a marker and one with a
\* lenticular marker
SampleEntries ==
    <<StrEntry(<<" ">>), StrEntry(<<"a">>),
      StrEntry(<<LeftLenticularBracket, "0", "0", "0", "2",
                 RightLenticularBracket, "[", "0", "0", "1", "]">>)>>

\* a document with an empty mapping, no description, one that is no mapping,
\* or a mapping with the section "s" of the three entries
SInitAny ==
    /\ description \in
          {Description(k, <<>>) : k \in {"dict", "missing", "other"}}
            \cup {Description("dict",
                              <<[name |-> <<"s">>,
                                 content |-> ListContent(SampleEntries)]>>)}
    /\ segments = <<>>
    /\ spc = "build"

\* self.max_retries when the constructor is given none
DefaultMaxRetries == 3

\* a miner that run was not called on
RInitWith(n, review) ==
    /\ self_max_retries = n
    /\ review_json = review
    /\ rpc = "idle"
    /\ arguments = JNull
    /\ loop_idx = 0
    /\ verified_items = <<>>
    /\ verified_count = 0
    /\ partial_count = 0
    /\ not_found_count = 0
    /\ errors = <<>>
    /\ result = ExtractionResult("none", 0, 0, 0, 0, <<>>, <<>>)
    /\ exception = ""
    /\ calls = <<>>

RInit == RInitWith(DefaultMaxRetries, JDict(<<>>, <<>>))

XInit ==
    /\ raw_text = <<>>
    /\ embedded = <<>>
    /\ xresult = JNull
    /\ xpc = "input"

NInit ==
    /\ ntext = <<>>
    /\ normalized = <<>>
    /\ npc = "input"

----------------------------------------------------------------------------
(* The verifier on its own: any given_quote, any sequence of segments of one     *)
(* list section "s" whose paragraphs carry no marker                       *)

VerifyAlphabet == {"a", "b", " ", IdeographicFullStop}

VSection == <<"s">>

RECURSIVE TotalChars(_)
TotalChars(segs) ==
    IF segs = <<>> THEN 0 ELSE Len(Head(segs).text) + TotalChars(Tail(segs))

\* the caller's document gains a paragraph
VAddSegment(c) ==
    /\ vpc = "build"
    /\ Len(given_segments) < MaxSegs
    /\ TotalChars(given_segments) < MaxDocChars
    /\ given_segments' =
          Append(given_segments,
                 PatentSegment(SynthesizedId(VSection, Len(given_segments)),
                               <<c>>, VSection, Len(given_segments)))
    /\ UNCHANGED <<given_quote, vresult, vpc, ivars, svars, rvars, xvars, nvars, lvars>>

\* the caller's last paragraph gains a character
VExtendSegment(c) ==
    /\ vpc = "build"
    /\ given_segments # <<>>
    /\ TotalChars(given_segments) < MaxDocChars
    /\ given_segments' =
          [given_segments EXCEPT ![Len(given_segments)].text = Append(@, c)]
    /\ UNCHANGED <<given_quote, vresult, vpc, ivars, svars, rvars, xvars, nvars, lvars>>

\* the caller's given_quote gains a character
VExtendQuote(c) ==
    /\ vpc = "build"
    /\ Len(given_quote) < MaxQuoteLen
    /\ given_quote' = Append(given_quote, c)
    /\ UNCHANGED <<given_segments, vresult, vpc, ivars, svars, rvars, xvars, nvars, lvars>>

\* twenty characters that are neither whitespace nor boundaries
Letters ==
    <<"a", "b", "c", "d", "e", "f", "g", "h", "i", "j",
      "k", "l", "m", "n", "o", "p", "q", "r", "s", "t">>

Reverse(t) == [i \in 1..Len(t) |-> t[Len(t) + 1 - i]]

\* the lengths of the long quotes
LongQuoteLens == {7, 20}

\* the caller gives a quote of n distinct letters and one paragraph that
\* holds m of these letters in another order
VLongInput(n, m) ==
    /\ vpc = "build"
    /\ given_segments = <<>>
    /\ given_quote = <<>>
    /\ given_quote' = SubSeq(Letters, 1, n)
    /\ given_segments' =
          <<PatentSegment(SynthesizedId(VSection, 0),
                          Reverse(SubSeq(Letters, 1, m)), VSection, 0)>>
    /\ UNCHANGED <<vresult, vpc, ivars, svars, rvars, xvars, nvars, lvars>>

\* the call of _verify_quote_enhanced; the segmenter keeps no blank paragraph
Verify ==
    /\ vpc = "build"
    /\ \A i \in 1..Len(given_segments) : Strip(given_segments[i].text) # <<>>
    /\ vresult' = verify_quote_enhanced(given_quote, given_segments)
    /\ vpc' = "done"
    /\ UNCHANGED <<given_segments, given_quote, ivars, svars, rvars, xvars, nvars, lvars>>

VerifyNext ==
    \/ \E c \in VerifyAlphabet : VAddSegment(c)
    \/ \E c \in VerifyAlphabet : VExtendSegment(c)
    \/ \E c \in VerifyAlphabet : VExtendQuote(c)
    \/ \E n \in LongQuoteLens, m \in 2..20 : m <= n /\ VLongInput(n, m)
    \/ Verify

VerifyInit == IInit /\ SInit /\ VInit /\ RInit /\ XInit /\ NInit /\ LInit

SpecVerify == VerifyInit /\ [][VerifyNext]_vars

----------------------------------------------------------------------------
(* The segmenter on its own: any document *)

SectionNames == {<<"s">>, <<"0", "0", "0", "1">>, <<"s", "_", "0", "0", "0", "0">>}

ParagraphTexts ==
    { <<"a">>,
      <<" ">>,
      <<"[", "0", "0", "0", "1", "]", "a">>,
      <<"a", "[", "0", "0", "0", "1", "]">>,
      <<LeftLenticularBracket, "0", "0", "0", "2", RightLenticularBracket,
        "[", "0", "0", "1", "]">>,
      <<Pilcrow, "0", "0", "0", "2", "[", "0", "0", "0", "1", "]">> }

ListEntries == {StrEntry(t) : t \in ParagraphTexts} \cup {OtherEntry}

NewContents ==
    {ListContent(<<>>), MapContent, StrContent(<<"a">>), StrContent(<<" ">>)}

RECURSIVE TotalEntries(_)
TotalEntries(sections) ==
    IF sections = <<>> THEN 0
    ELSE Len(Head(sections).content.items) + TotalEntries(Tail(sections))

\* the document gains a section; a mapping's keys are distinct
SAddSection(name, content) ==
    /\ spc = "build"
    /\ description.kind = "dict"
    /\ Len(description.sections) < MaxSections
    /\ \A k \in 1..Len(description.sections) : description.sections[k].name # name
    /\ description' =
          [description EXCEPT
              !.sections = Append(@, [name |-> name, content |-> content])]
    /\ UNCHANGED <<segments, spc, ivars, vvars, rvars, xvars, nvars, lvars>>

\* the document's last section, a list, gains an entry
SAddEntry(entry) ==
    /\ spc = "build"
    /\ description.sections # <<>>
    /\ description.sections[Len(description.sections)].content.kind = "list"
    /\ TotalEntries(description.sections) < MaxParagraphs
    /\ description' =
          [description EXCEPT
              !.sections[Len(description.sections)].content.items =
                  Append(@, entry)]
    /\ UNCHANGED <<segments, spc, ivars, vvars, rvars, xvars, nvars, lvars>>

\* the call of _prepare_document_enhanced
Prepare ==
    /\ spc = "build"
    /\ LET r == prepare_document_enhanced(description)
       IN  /\ segments' = r.segments
           /\ spc' = IF r.raised THEN "raised" ELSE "prepared"
    /\ UNCHANGED <<description, ivars, vvars, rvars, xvars, nvars, lvars>>

SegmentNext ==
    \/ \E name \in SectionNames, content \in NewContents : SAddSection(name, content)
    \/ \E entry \in ListEntries : SAddEntry(entry)
    \/ Prepare

SegmentInit == IInit /\ SInitAny /\ VInit /\ RInit /\ XInit /\ NInit /\ LInit

SpecSegment == SegmentInit /\ [][SegmentNext]_vars

----------------------------------------------------------------------------
(* The generation call on its own: any caller, any endpoint *)

InvokeTexts == {<<"x">>, <<"y">>}

InvokeReplies ==
    {[kind |-> "text", text |-> t] : t \in InvokeTexts}
      \cup {[kind |-> k, text |-> NoText] : k \in ReplyKinds \ {"text"}}

StartCall ==
    /\ ipc = "idle"
    /\ \E which \in {"miner", "ground"}, n \in 1..MaxRetries : BeginCall(which, n)
    /\ UNCHANGED <<svars, vvars, rvars, xvars, nvars, lvars>>

InvokeNext ==
    \/ StartCall
    \/ \E reply \in InvokeReplies : call_llm_with_retry(reply)
    \/ \E reply \in InvokeReplies : generate_with_retry(reply)

InvokeInit == IInit /\ SInit /\ VInit /\ RInit /\ XInit /\ NInit /\ LInit

SpecInvoke == InvokeInit /\ [][InvokeNext]_vars

----------------------------------------------------------------------------
(* run on any review and document, against any endpoint *)

\* the pieces of a JSON text: a string, a number, an object of members
\* <<key, pieces>>, an array of elements
S(text) == <<StrTok(text)>>
N(hundredths) == <<NumTok(hundredths)>>
Lit(name) == <<LitTok(name)>>

RECURSIVE MemberToks(_, _)
MemberToks(members, k) ==
    IF k > Len(members) THEN <<>>
    ELSE <<StrTok(<<members[k][1]>>), Punct(":")>> \o members[k][2]
           \o (IF k < Len(members) THEN <<Punct(","), WsTok>> ELSE <<>>)
           \o MemberToks(members, k + 1)

Obj(members) == <<Punct("{")>> \o MemberToks(members, 1) \o <<Punct("}")>>

RECURSIVE ElementToks(_, _)
ElementToks(elems, k) ==
    IF k > Len(elems) THEN <<>>
    ELSE elems[k] \o (IF k < Len(elems) THEN <<Punct(",")>> ELSE <<>>)
           \o ElementToks(elems, k + 1)

Arr(elems) == <<Punct("[")>> \o ElementToks(elems, 1) \o <<Punct("]")>>

\* a response that thinks aloud and then gives its JSON in a code block
Wrapped(toks) ==
    <<ThinkOpen, WsTok, Word("hmm"), WsTok, ThinkClose, WsTok, FenceJson, WsTok>>
      \o toks \o <<WsTok, Fence>>

Prose == <<Word("sorry"), WsTok, Word("no"), WsTok, Word("answer")>>

\* the assertion at position k of a rationale response
AssertionName(k) == <<"A">> \o Decimal(k)

ArgumentToks(k) ==
    Obj(<< <<"claim_scope", S(<<"c">>)>>, <<"assertion", S(AssertionName(k))>>,
           <<"rationale", S(<<"r">>)>> >>)

ArgumentList(n) == Arr([k \in 1..n |-> ArgumentToks(k)])

\* the response the prompt PARSE_ARGUMENTS asks for
ArgumentsReply(args, confidence) ==
    Obj(<< <<"arguments", args>>, <<"total_count", N(100)>>,
           <<"confidence", confidence>> >>)

ListAssertion == Obj(<< <<"assertion", Arr(<<S(<<"x">>)>>)>> >>)

\* the responses to the rationale prompt: well-formed ones of every length,
\* and malformed ones
ParseTexts ==
    {ArgumentsReply(ArgumentList(n), N(95)) : n \in 0..MaxAssertions}
      \cup {Wrapped(ArgumentsReply(ArgumentList(1), N(50))),
            Prose,
            Obj(<<>>),
            Arr(<<N(100)>>),
            Obj(<< <<"confidence", N(90)>> >>),
            ArgumentsReply(ArgumentList(1), S(<<"high">>)),
            ArgumentsReply(Lit("null"), N(95)),
            ArgumentsReply(Arr(<<S(AssertionName(1))>>), N(95)),
            ArgumentsReply(Arr(<<ListAssertion>>), N(95)),
            ArgumentsReply(Arr(<<ArgumentToks(1), ListAssertion>>), N(95)),
            ArgumentsReply(ArgumentList(QualityLimit + 1), N(95))}

\* the paragraphs of the document run is given
RunParagraphs == << <<"a", "b", " ", "c">>, <<"d">> >>

\* the paragraph of the document that holds one paragraph
SingleParagraph == <<"d">>

RunDocuments ==
    {Description("dict",
                 <<[name |-> <<"s">>,
                    content |-> ListContent([k \in 1..Len(RunParagraphs) |->
                                                StrEntry(RunParagraphs[k])])]>>),
     Description("dict",
                 <<[name |-> <<"s">>,
                    content |-> ListContent(<<StrEntry(SingleParagraph)>>)]>>),
     Description("missing", <<>>),
     Description("other", <<>>)}

RunReviews ==
    {JDict(<< <<"examiner_review">> >>, <<JStr(<<"r">>)>>),
     JDict(<< <<"examiner_review">>, <<"final_decision">> >>,
           <<JStr(<<>>), JStr(<<"r">>)>>),
     JDict(<<>>, <<>>)}

EvidenceToks(quote) ==
    Obj(<< <<"quote", S(quote)>>, <<"source_id", S(<<"[0001]">>)>>,
           <<"proves", S(<<"p">>)>> >>)

\* the response the prompt EXTRACT_EVIDENCE asks for when evidence is found
FoundReply(evidence, quality_check) ==
    Obj(<< <<"found", Lit("true")>>, <<"evidence", Arr(evidence)>>,
           <<"quality_check", quality_check>> >>)

Quality == Obj(<< <<"confidence", N(90)>> >>)

\* quotes the document holds, holds within a word, holds the characters of,
\* and does not hold
QuoteSets ==
    {<< <<"a", "b">> >>, << <<"x">> >>, << <<"b">> >>, << <<"b", "a">> >>,
     << <<"a", "b">>, <<"d">> >>, << <<"a", "b">>, <<"x">> >>,
     << <<"x">>, <<"b">> >>}

\* the response the prompt EXTRACT_EVIDENCE asks for when nothing is found
NotFoundReply == Obj(<< <<"found", Lit("false")>>, <<"reason", S(<<"r">>)>> >>)

\* the responses to an evidence prompt: well-formed and malformed ones
EvidenceTexts ==
    {FoundReply([k \in 1..Len(qs) |-> EvidenceToks(qs[k])], Quality) :
        qs \in QuoteSets}
      \cup {Wrapped(FoundReply(<<EvidenceToks(<<"d">>)>>, Quality)),
            NotFoundReply,
            FoundReply(<<>>, Quality),
            Prose,
            Obj(<<>>),
            Arr(<<N(100)>>),
            FoundReply(<<S(<<"a", "b">>)>>, Quality),
            FoundReply(<<Obj(<< <<"quote", Lit("null")>> >>)>>, Quality),
            FoundReply(<<Obj(<< <<"quote", S(<<"a", "b">>)>>,
                                <<"character_count", S(<<"2">>)>> >>)>>, Quality),
            FoundReply(<<EvidenceToks(<<"a", "b">>)>>, N(100))}

\* what the endpoint may answer to the call in progress; the assertions of a
\* list longer than QualityLimit are all answered with NotFoundReply
RunReplies ==
    IF rpc # "parse_call" /\ PyLen(arguments) > QualityLimit
    THEN {[kind |-> "text", text |-> NotFoundReply]}
    ELSE {[kind |-> "text", text |-> t] :
             t \in IF rpc = "parse_call" THEN ParseTexts ELSE EvidenceTexts}
           \cup {[kind |-> k, text |-> NoText] : k \in ReplyKinds \ {"text"}}
           \cup {Interrupt}

RunNext ==
    \/ RunStart
    \/ \E reply \in RunReplies : rpc # "idle" /\ call_llm_with_retry(reply)
    \/ RunParsed
    \/ RunAssertion
    \/ RunEvidence
    \/ RunInterrupted

RunInit ==
    /\ IInit
    /\ VInit
    /\ description \in RunDocuments
    /\ segments = <<>>
    /\ spc = "build"
    /\ \E n \in 0..RunMaxRetries, review \in RunReviews : RInitWith(n, review)
    /\ XInit
    /\ NInit
    /\ LInit

SpecRun == RunInit /\ [][RunNext]_vars

----------------------------------------------------------------------------
(* JSONExtractor.extract_json_from_text on its own: any text of at most    *)
(* MaxTextToks pieces, or an object in a json fence between two pieces of  *)
(* prose                                                                   *)

MaxTextToks == 4

ExtractAlphabet ==
    {Punct("{"), Punct("}"), Punct("["), Punct("]"), Punct(":"),
     StrTok(<<"k">>), NumTok(100), Word("w"), FenceJson, Fence}

\* valid JSON objects: empty, flat, holding an empty object, nested three deep
ExtractObjects ==
    {Obj(<<>>),
     Obj(<< <<"a", N(100)>> >>),
     Obj(<< <<"a", Obj(<<>>)>> >>),
     Obj(<< <<"a", Obj(<< <<"b", S(<<"x">>)>> >>)>>,
            <<"c", Arr(<<N(100), Lit("true")>>)>> >>),
     Obj(<< <<"a", Obj(<< <<"b", Obj(<< <<"c", Lit("null")>> >>)>> >>)>> >>)}

ExtractProse ==
    {<<>>,
     <<Word("hi"), WsTok>>,
     Prose,
     <<Word("set"), WsTok, Punct("{"), Word("x"), Punct("}"), WsTok>>}

\* the text holding the object in a json fence between the two proses
Fenced(before, obj, after) ==
    before \o <<FenceJson, WsTok>> \o obj \o <<WsTok, Fence>> \o after

XWrite(tok) ==
    /\ xpc = "input"
    /\ embedded = <<>>
    /\ Len(raw_text) < MaxTextToks
    /\ raw_text' = Append(raw_text, tok)
    /\ UNCHANGED <<embedded, xresult, xpc, ivars, svars, vvars, rvars, nvars, lvars>>

XEmbed(before, obj, after) ==
    /\ xpc = "input"
    /\ raw_text = <<>>
    /\ raw_text' = Fenced(before, obj, after)
    /\ embedded' = obj
    /\ UNCHANGED <<xresult, xpc, ivars, svars, vvars, rvars, nvars, lvars>>

Extract ==
    /\ xpc = "input"
    /\ xresult' = extract_json_from_text(raw_text)
    /\ xpc' = "done"
    /\ UNCHANGED <<raw_text, embedded, ivars, svars, vvars, rvars, nvars, lvars>>

ExtractNext ==
    \/ \E tok \in ExtractAlphabet : XWrite(tok)
    \/ \E before \in ExtractProse, obj \in ExtractObjects, after \in ExtractProse :
          XEmbed(before, obj, after)
    \/ Extract

ExtractInit == IInit /\ SInit /\ VInit /\ RInit /\ XInit /\ NInit /\ LInit

SpecExtract == ExtractInit /\ [][ExtractNext]_vars

----------------------------------------------------------------------------
(* _normalize_whitespace on its own: any text of at most MaxNormLen        *)
(* characters over two letters and four kinds of whitespace                *)

MaxNormLen == 4

NormSpaces == {" ", "\t", "\n", IdeographicSpace}

NormAlphabet == NormSpaces \cup {"a", "b"}

NWrite(c) ==
    /\ npc = "input"
    /\ Len(ntext) < MaxNormLen
    /\ ntext' = Append(ntext, c)
    /\ UNCHANGED <<normalized, npc, ivars, svars, vvars, rvars, xvars, lvars>>

Normalize ==
    /\ npc = "input"
    /\ normalized' = normalize_whitespace(ntext)
    /\ npc' = "done"
    /\ UNCHANGED <<ntext, ivars, svars, vvars, rvars, xvars, lvars>>

NormalizeNext ==
    \/ \E c \in NormAlphabet : NWrite(c)
    \/ Normalize

NormalizeInit == IInit /\ SInit /\ VInit /\ RInit /\ XInit /\ NInit /\ LInit

SpecNormalize == NormalizeInit /\ [][NormalizeNext]_vars

----------------------------------------------------------------------------
(* load_patent_b on a directory of documents                               *)

MaxFiles == 2

MaxReviews == 2

\* the documents a directory may hold
Documents ==
    {Document("ok", n) : n \in 1..MaxReviews}
      \cup {Document(kind, 0) : kind \in {"no_reason", "empty", "unreadable"}}

\* what a run may come to: a result without errors, one with errors, or an
\* exception
RunOutcomes == {"clean", "errors", "raises"}

\* the directory gets one more document
LAddFile(doc) ==
    /\ lpc = "build"
    /\ Len(json_files) < MaxFiles
    /\ json_files' = Append(json_files, doc)
    /\ UNCHANGED <<miner, lpc, file_idx, reason_idx, extraction_results,
                   evidence_files, ivars, svars, vvars, rvars, xvars, nvars>>

LoadNext ==
    \/ \E doc \in Documents : LAddFile(doc)
    \/ \E made \in {"miner", "none"} : LoadBegin(made)
    \/ LoadFile
    \/ \E outcome \in RunOutcomes : LoadRun(outcome)
    \/ LoadReturn

LoadInit == IInit /\ SInit /\ VInit /\ RInit /\ XInit /\ NInit /\ LInit

SpecLoad == LoadInit /\ [][LoadNext]_vars

----------------------------------------------------------------------------
(* Claims about the generation call *)

\* the replies so far were all rate-limit failures
TransientOnly(m) == \A i \in 1..m : outcomes[i].kind = "rate_limit"

\* the exhausted-failure outcome: None from _call_llm_with_retry, the
\* ResourceExhausted re-raised by _generate_with_retry
Exhausted ==
    \/ impl = "miner" /\ ipc = "returned" /\ iret = ReturnNone
    \/ impl = "ground" /\ ipc = "raised" /\ iret = Raise("ResourceExhausted")

C2_FailureClassification ==
    LET n == Len(outcomes) IN
    \A i \in 1..n :
        /\ i < n => outcomes[i].kind \in {"rate_limit", "empty"}
        /\ outcomes[i].kind = "error" => (i = n /\ ipc # "attempting")

----------------------------------------------------------------------------
(* Claims about the verifier *)

NormQuote == normalize_whitespace(given_quote)

NormText(i) == normalize_whitespace(given_segments[i].text)

SegIndexes == 1..Len(given_segments)

\* C3: if some segment's text equals the quote after whitespace
\* normalization of both, verify returns Verified with the id of such a
\* segment, whatever other segments precede it.
C3_ExactMatch ==
    (vpc = "done" /\ \E i \in SegIndexes : NormText(i) = NormQuote)
        => /\ vresult.status = "verified"
           /\ \E i \in SegIndexes :
                 /\ NormText(i) = NormQuote
                 /\ vresult.source_id = given_segments[i].id

\* the character at position k of a text is a boundary character, or k lies
\* before the start or after the end of the text
BoundaryAt(text, k) ==
    \/ k < 1
    \/ k > Len(text)
    \/ text[k] \in {" ", IdeographicFullStop, IdeographicComma,
                    LeftCornerBracket, RightCornerBracket, "\n", "\t"}

\* the quote occurs in the text after its first p characters
OccursAt(q, text, p) ==
    /\ p + Len(q) <= Len(text)
    /\ SubSeq(text, p + 1, p + Len(q)) = q

\* an occurrence of the quote in the text with a boundary on both sides
BoundedOccurrence(q, text, p) ==
    /\ OccursAt(q, text, p)
    /\ BoundaryAt(text, p)
    /\ BoundaryAt(text, p + Len(q) + 1)

\* the first segment whose normalized text contains the normalized quote
FirstContaining ==
    CHOOSE i \in SegIndexes :
        /\ Contains(NormQuote, NormText(i))
        /\ \A j \in 1..(i - 1) : ~Contains(NormQuote, NormText(j))

\* C4: a quote that is a proper substring of a segment's text is Verified
\* only when the characters before and after the match in the un-normalized
\* text are boundary characters (or the start or end of the text); a quote
\* that is cut mid-word wherever it occurs is not Verified: the outcome is
\* ContextMismatch.
C4_BoundaryProperty ==
    vpc = "done" =>
        /\ vresult.status = "verified" =>
              \E i \in SegIndexes :
                  /\ given_segments[i].id = vresult.source_id
                  /\ \/ NormText(i) = NormQuote
                     \/ \E p \in 0..Len(given_segments[i].text) :
                           BoundedOccurrence(given_quote, given_segments[i].text, p)
        /\ (\E i \in SegIndexes : Contains(NormQuote, NormText(i)))
              => LET text == given_segments[FirstContaining].text
                 IN  (/\ NormText(FirstContaining) # NormQuote
                      /\ \A p \in 0..Len(text) :
                            ~BoundedOccurrence(given_quote, text, p))
                        => vresult.status = "context_mismatch"

\* a quote Verified as a proper substring of the first of two segments
C4_Witness ==
    /\ vpc = "done"
    /\ vresult.status = "verified"
    /\ given_quote # <<>>
    /\ Len(given_segments) = 2
    /\ vresult.source_id = given_segments[1].id
    /\ NormText(1) # NormQuote
    /\ Len(given_segments[1].text) >= Len(given_quote) + 2

\* overlap(q, s) >= 0.85 for the segment i
OverlapReaches(i) ==
    LET q == CharSet(normalize_whitespace(given_quote)) \ {" "}
        t == CharSet(normalize_whitespace(given_segments[i].text)) \ {" "}
    IN  100 * Cardinality(q \cap t) >= 85 * Cardinality(q)

\* C5: if overlap >= 0.85 for at least one segment the outcome is not
\* NotFound; if overlap < 0.85 for every segment the outcome is NotFound.
C5_FuzzyThreshold ==
    vpc = "done" =>
        /\ (\E i \in SegIndexes : OverlapReaches(i)) => vresult.status # "not_found"
        /\ (\A i \in SegIndexes : ~OverlapReaches(i)) => vresult.status = "not_found"

\* a quote of twenty characters of which the paragraph holds seventeen
C5_Witness ==
    /\ vpc = "done"
    /\ Len(given_quote) = 20
    /\ Len(given_segments) = 1
    /\ Len(given_segments[1].text) = 17
    /\ vresult.status = "partial_match"

----------------------------------------------------------------------------
(* Claims about the segmenter *)

\* C6: no two segments returned by the segmenter have the same id.
C6_UniqueIds ==
    spc = "prepared" =>
        \A i, j \in 1..Len(segments) :
            i # j => segments[i].id # segments[j].id

----------------------------------------------------------------------------
(* Claims about run *)

\* the evidence list of the response the call in progress returned, when run
\* goes on to verify its citations: the response is an object with a true
\* "found" and a non-empty "evidence" whose entries are all well-formed
CitedEvidence ==
    LET res == extract_json_from_text(iret.text)
        evidence == DictGet(res, "evidence", JList(<<>>))
    IN  IF /\ rpc = "evidence_call" /\ ipc = "returned" /\ iret.kind = "text"
           /\ Truthy(res) /\ IsDict(res)
           /\ Truthy(DictGet(res, "found", JNull))
           /\ evidence.k = "list" /\ evidence.items # <<>>
           /\ \A i \in 1..Len(evidence.items) :
                 CitationOf(evidence.items[i], segments).exc = ""
        THEN evidence.items
        ELSE <<>>

\* the outcome of the citation ev
Outcome(ev) ==
    verify_quote_enhanced(DictGet(ev, "quote", JStr(<<>>)).s, segments).status

\* C7: an evidence item with a non-empty list of citation outcomes is
\* Verified iff every outcome is Verified, PartialMatch iff at least one is
\* Verified and at least one is not, NotFound iff none is Verified; exactly
\* one of verified_count, partial_count, not_found_count is incremented
\* accordingly.
C7_Aggregation ==
    [][LET evs == CitedEvidence
           every == \A i \in 1..Len(evs) : Outcome(evs[i]) = "verified"
           some == \E i \in 1..Len(evs) : Outcome(evs[i]) = "verified"
           aggregate == IF every THEN "verified"
                        ELSE IF some THEN "partial_match" ELSE "not_found"
           appended == Len(verified_items') = Len(verified_items) + 1
       IN  evs # <<>> =>
             /\ verified_count' = verified_count + (IF every THEN 1 ELSE 0)
             /\ partial_count' = partial_count + (IF some /\ ~every THEN 1 ELSE 0)
             /\ not_found_count' = not_found_count + (IF ~some THEN 1 ELSE 0)
             /\ rpc' = "loop" => appended
             /\ appended =>
                  /\ verified_items'[Len(verified_items')].shape = "evidence"
                  /\ verified_items'[Len(verified_items')].verification_status
                        = aggregate
                  /\ Len(verified_items'[Len(verified_items')].citations) = Len(evs)
      ]_vars

\* a returned run with an item of two citations that is a partial match, and
\* one of a single citation that is verified
C7_Witness ==
    /\ rpc = "done"
    /\ partial_count = 1
    /\ verified_count = 1
    /\ \E i, j \in 1..Len(result.evidence_items) :
          /\ result.evidence_items[i].shape = "evidence"
          /\ Len(result.evidence_items[i].citations) = 2
          /\ result.evidence_items[i].verification_status = "partial_match"
          /\ result.evidence_items[j].shape = "evidence"
          /\ result.evidence_items[j].verification_status = "verified"

\* C8: for every review, every document and every behaviour of the
\* endpoint, run returns an ExtractionResult and no exception leaves it.
C8_RunNeverRaises == rpc # "raised"

\* the rationale call in progress has failed: it returned None, or no JSON
\* can be extracted from the response
ParseFails ==
    /\ rpc = "parse_call"
    /\ ipc = "returned"
    /\ iret.kind # "text" \/ ~Truthy(extract_json_from_text(iret.text))

\* C9: when the rationale call fails or its response cannot be extracted,
\* run returns a result with total_assertions, verified_count, partial_count
\* and not_found_count 0, no items and the failure recorded in errors, and
\* no call is made for an assertion.
C9_RationaleFailureFatal ==
    /\ [][ParseFails =>
            /\ rpc' = "done"
            /\ result'.total_assertions = 0
            /\ result'.verified_count = 0
            /\ result'.partial_count = 0
            /\ result'.not_found_count = 0
            /\ result'.evidence_items = <<>>
            /\ Len(result'.errors) = 1
            /\ result'.errors[1].message \in
                  {"Failed to parse examiner's arguments",
                   "Failed to extract JSON from argument parsing"}
            /\ calls' = <<0>>
            /\ ipc' = "idle"
         ]_vars
    /\ [][rpc = "done" => rpc' = "done" /\ calls' = calls /\ ipc' = ipc]_vars

\* a run that returned after a rationale response no JSON could be
\* extracted from
C9_Witness ==
    /\ rpc = "done"
    /\ calls = <<0>>
    /\ result = FatalResult(DocNumber,
                    <<ErrorEntry("Failed to extract JSON from argument parsing",
                                 <<>>)>>)

\* the call in progress for an assertion has failed: it returned None, or no
\* JSON can be extracted from the response
AssertionFails ==
    /\ rpc = "evidence_call"
    /\ ipc = "returned"
    /\ iret.kind # "text" \/ ~Truthy(extract_json_from_text(iret.text))

\* the calls of a run that processed n assertions in order
CallsInOrder(n) == [i \in 1..(n + 1) |-> i - 1]

\* C10: when the call or the extraction for one assertion fails, run is not
\* aborted: the assertion gets one entry in errors and is counted once in
\* not_found_count, and the loop goes on to the later assertions in order.
C10_PartialFailurePolicy ==
    /\ [][AssertionFails =>
            /\ rpc' = "loop"
            /\ Len(errors') = Len(errors) + 1
            /\ SubSeq(errors', 1, Len(errors)) = errors
            /\ errors'[Len(errors')].about =
                  DictGet(IterItems(arguments)[loop_idx], "assertion",
                          JStr(<<>>)).s
            /\ not_found_count' = not_found_count + 1
            /\ UNCHANGED <<verified_count, partial_count, verified_items,
                           arguments, loop_idx, calls>>
         ]_vars
    /\ [][rpc = "loop" =>
            IF loop_idx < PyLen(arguments)
            THEN /\ loop_idx' = loop_idx + 1
                 /\ rpc' \in {"evidence_call", "raised"}
                 /\ rpc' = "evidence_call" => calls' = Append(calls, loop_idx + 1)
                 /\ UNCHANGED <<errors, not_found_count>>
            ELSE /\ rpc' = "done"
                 /\ calls' = CallsInOrder(PyLen(arguments))
                 /\ result'.errors = errors
                 /\ result'.not_found_count = not_found_count
         ]_vars

\* a returned run whose first assertion's call failed and whose second
\* assertion was verified
C10_Witness ==
    /\ rpc = "done"
    /\ calls = <<0, 1, 2>>
    /\ result.errors = <<ErrorEntry("Failed to extract evidence for",
                                    AssertionName(1))>>
    /\ result.not_found_count = 1
    /\ result.verified_count = 1
    /\ Len(result.evidence_items) = 1
    /\ result.evidence_items[1].assertion = JStr(AssertionName(2))

----------------------------------------------------------------------------
(* Claims about the extractor *)

\* C11: a valid JSON object placed in a json fence between two pieces of
\* prose, the empty object and nested objects included, is returned by
\* extract_json_from_text as an object equal to the original
C11_RoundTrip ==
    (xpc = "done" /\ embedded # <<>>) =>
        xresult = json_loads(embedded).val

\* strategy k did not yield a parsed value: it raised, or found no match
StrategyFailed(k, toks) ==
    Strategy(k, toks).raised \/ Strategy(k, toks).val = JNull

\* C12: for any text extract_json_from_text returns a mapping or the failure
\* value, never a list, a number or a string, and it returns the failure
\* value only when each of the four strategies failed to parse
C12_ObjectOrFailure ==
    xpc = "done" =>
        /\ xresult.k \in {"dict", "null"}
        /\ xresult = JNull => \A k \in 1..4 : StrategyFailed(k, raw_text)

\* the strategies that succeed on the text: they do not raise and yield a
\* parsed value
Succeeding(toks) == {k \in 1..4 : ~StrategyFailed(k, toks)}

\* C23: the strategies are tried in the order json fence, first to last
\* brace, thinking removed and balanced braces, direct parse; the value
\* returned is that of the first strategy in this order that succeeds, a
\* strategy that raises counts as failed, and no strategy is tried after a
\* success
C23_CascadeOrder ==
    xpc = "done" =>
        IF Succeeding(raw_text) = {} THEN xresult = JNull
        ELSE xresult = Strategy(Min(Succeeding(raw_text)), raw_text).val

----------------------------------------------------------------------------
(* Claims about whitespace normalisation *)

\* the characters of a text that are not whitespace, in order
NonSpaceChars(text) == SelectSeq(text, LAMBDA c : ~IsSpace(c))

\* position i of text starts a new word: a letter at the start or after
\* whitespace
WordStart(text, i) == ~IsSpace(text[i]) /\ (i = 1 \/ IsSpace(text[i - 1]))

\* the number of words of a text
WordCount(text) == Cardinality({i \in 1..Len(text) : WordStart(text, i)})

\* the texts that differ from text in the kind or the length of one run of
\* whitespace: one whitespace character replaced by another, or doubled
WhitespaceVariants(text) ==
    {[text EXCEPT ![i] = w] : i \in {j \in 1..Len(text) : IsSpace(text[j])},
                               w \in NormSpaces}
      \cup {SubSeq(text, 1, i) \o <<w>> \o SubSeq(text, i + 1, Len(text)) :
              i \in {j \in 1..Len(text) : IsSpace(text[j])}, w \in NormSpaces}

\* C13: _normalize_whitespace turns every run of whitespace (space, tab,
\* newline, full-width space) into one ASCII space and trims both ends; it is
\* idempotent; texts that differ only in the length or kind of their
\* whitespace runs have the same normal form
C13_Normalize ==
    npc = "done" =>
        /\ \A i \in 1..Len(normalized) :
              IsSpace(normalized[i]) =>
                  /\ normalized[i] = " "
                  /\ 1 < i /\ i < Len(normalized)
                  /\ ~IsSpace(normalized[i + 1])
        /\ NonSpaceChars(normalized) = NonSpaceChars(ntext)
        /\ WordCount(normalized) = WordCount(ntext)
        /\ normalize_whitespace(normalized) = normalized
        /\ \A other \in WhitespaceVariants(ntext) :
              normalize_whitespace(other) = normalized

\* a run made of a tab and a full-width space between two letters
C13_Witness ==
    /\ npc = "done"
    /\ \E i \in 1..(Len(ntext) - 1) :
          {ntext[i], ntext[i + 1]} = {"\t", IdeographicSpace}
    /\ \E other \in WhitespaceVariants(ntext) : Len(other) > Len(ntext)
    /\ normalized = <<"a", " ", "b">>

----------------------------------------------------------------------------
(* Further claims about the verifier *)

\* C14: the outcome of verify carries a segment id if and only if its status
\* is Verified (none for PartialMatch, ContextMismatch and NotFound), and the
\* contexts are supplied only for Verified
C14_IdIffVerified ==
    vpc = "done" =>
        /\ vresult.status = "verified"
              <=> vresult.source_id \notin {<<>>, NotAvailable}
        /\ vresult.status # "verified" =>
              /\ vresult.context_before = <<>>
              /\ vresult.context_after = <<>>

\* segment i holds the quote as a substring with a valid boundary: the
\* boundary is judged, as _is_context_valid judges it, at the first
\* occurrence of the quote in the raw text
BoundaryValidMatch(i) ==
    /\ Contains(NormQuote, NormText(i))
    /\ is_context_valid(given_quote, given_segments[i].text)

\* C19: ContextMismatch is the outcome when the normalized quote is a
\* substring of a segment with no valid boundary; the fuzzy match is reached
\* only when no segment holds the quote; a quote with a boundary-valid
\* substring match in some segment is never reported as ContextMismatch
\* because of another segment
C19_ContextMismatchRule ==
    vpc = "done" =>
        /\ vresult.status = "context_mismatch" =>
              \E i \in SegIndexes :
                  /\ Contains(NormQuote, NormText(i))
                  /\ ~BoundaryValidMatch(i)
                  /\ vresult.source_id = given_segments[i].id
        /\ vresult.status \in {"partial_match", "not_found"} =>
              \A i \in SegIndexes : ~Contains(NormQuote, NormText(i))
        /\ (\E i \in SegIndexes : BoundaryValidMatch(i)) =>
              vresult.status # "context_mismatch"

\* C20: when the outcome is Verified for the segment at index i, the context
\* before is the raw text of segment i-1, empty at the first index, and the
\* context after is the raw text of segment i+1, empty at the last index, for
\* exact and for substring matches
C20_ContextRule ==
    (vpc = "done" /\ vresult.status = "verified") =>
        \E i \in SegIndexes :
            /\ vresult.source_id = given_segments[i].id
            /\ vresult.context_before =
                  (IF i = 1 THEN <<>> ELSE given_segments[i - 1].text)
            /\ vresult.context_after =
                  (IF i = Len(given_segments) THEN <<>>
                   ELSE given_segments[i + 1].text)

\* a substring match in the last of two segments, the first one's raw text
\* being not in normal form
C20_Witness ==
    /\ vpc = "done"
    /\ vresult.status = "verified"
    /\ Len(given_segments) = 2
    /\ vresult.source_id = given_segments[2].id
    /\ NormText(2) # NormQuote
    /\ NormText(1) # given_segments[1].text
    /\ vresult.context_before = given_segments[1].text
    /\ vresult.context_after = <<>>

----------------------------------------------------------------------------
(* Further claims about the segmenter *)

\* the usable parts of the description: the non-blank string entries <<k, j>>
\* of list sections and the non-blank string sections <<k, 0>>
UsableParts ==
    {<<k, j>> \in (1..Len(description.sections))
                    \X (0..TotalEntries(description.sections)) :
        LET content == description.sections[k].content
        IN  \/ /\ content.kind = "list"
               /\ j \in 1..Len(content.items)
               /\ content.items[j].kind = "str"
               /\ Strip(content.items[j].text) # <<>>
            \/ /\ content.kind = "str"
               /\ j = 0
               /\ Strip(content.text) # <<>>}

\* the text of a usable part
PartText(part) ==
    LET content == description.sections[part[1]].content
    IN  IF part[2] = 0 THEN content.text ELSE content.items[part[2]].text

\* C17: the segmenter never throws; for an empty document, a document without
\* a description, a description that is not a mapping, sections holding
\* nested maps, non-string or blank entries, it returns one segment for each
\* usable part and none for the others, nothing of a nested map among them
C17_SegmenterNeverThrows ==
    /\ spc # "raised"
    /\ spc = "prepared" =>
          /\ Len(segments) = Cardinality(UsableParts)
          /\ \A i \in 1..Len(segments) :
                \E part \in UsableParts :
                    /\ segments[i].text = PartText(part)
                    /\ segments[i].section = description.sections[part[1]].name

\* the ids [NNNN] of the markers [NNNN], lenticular NNNN and pilcrow NNNN
\* that a text holds
MarkerIds(text) ==
    {<<"[">> \o SubSeq(text, p + 1, p + 4) \o <<"]">> :
        p \in {q \in 1..Len(text) :
                  \E k \in 1..Len(MarkerPatterns) :
                      MarkerAt(text, q, MarkerPatterns[k][1], MarkerPatterns[k][2])}}

\* the usable part a comes before the usable part b in the source
PartBefore(a, b) == a[1] < b[1] \/ (a[1] = b[1] /\ a[2] < b[2])

\* the usable part at position i of the traversal
NthPart(i) ==
    CHOOSE part \in UsableParts :
        Cardinality({q \in UsableParts : PartBefore(q, part)}) = i - 1

\* C22: the segment of the non-blank list entry at position i of section S
\* has the id [NNNN] of a marker [NNNN], lenticular NNNN or pilcrow NNNN in
\* its text when there is one, otherwise the id [S_iiii], i its position in
\* the source list, skipped entries counted; the segments are in the order
\* of the source
C22_IdDerivation ==
    spc = "prepared" =>
        /\ Len(segments) = Cardinality(UsableParts)
        /\ \A i \in 1..Len(segments) :
              LET part == NthPart(i)
                  name == description.sections[part[1]].name
              IN  /\ segments[i].text = PartText(part)
                  /\ segments[i].section = name
                  /\ part[2] > 0 =>
                        /\ segments[i].index = part[2] - 1
                        /\ IF MarkerIds(PartText(part)) # {}
                           THEN segments[i].id \in MarkerIds(PartText(part))
                           ELSE segments[i].id =
                                   <<"[">> \o name \o <<"_">>
                                     \o Format04d(part[2] - 1) \o <<"]">>

\* a list whose first entry is skipped, whose second entry gets the id of its
\* position and whose third entry gets the id of its lenticular marker
C22_Witness ==
    /\ spc = "prepared"
    /\ Len(description.sections) = 1
    /\ Len(description.sections[1].content.items) = 3
    /\ Len(segments) = 2
    /\ segments[1].index = 1
    /\ segments[1].id =
          <<"[">> \o segments[1].section \o <<"_", "0", "0", "0", "1", "]">>
    /\ segments[2].index = 2
    /\ segments[2].text[1] = LeftLenticularBracket
    /\ segments[2].id = <<"[", "0", "0", "0", "2", "]">>

----------------------------------------------------------------------------
(* Further claims about run *)

\* the document with the single list section "s" holding SingleParagraph
SingleDocument ==
    Description("dict",
                <<[name |-> <<"s">>,
                   content |-> ListContent(<<StrEntry(SingleParagraph)>>)]>>)

\* the rationale was parsed to one assertion and the call for it has returned
\* a well-formed response that proposes one citation, its quote the paragraph
OneCitationOfParagraph ==
    /\ description = SingleDocument
    /\ arguments.k = "list"
    /\ PyLen(arguments) = 1
    /\ Len(CitedEvidence) = 1
    /\ DictGet(CitedEvidence[1], "quote", JStr(<<>>)) = JStr(SingleParagraph)
    /\ IsDict(DictGet(extract_json_from_text(iret.text), "quality_check",
                      JDict(<<>>, <<>>)))

\* C15: for a document with one list section S holding one paragraph P
\* without a marker, a rationale parsed to one assertion and a response that
\* proposes one citation with the quote P, run returns total_assertions 1,
\* verified_count 1, partial_count and not_found_count 0, the item Verified
\* and the source of the citation the synthesized id [S_0000]
C15_EndToEnd ==
    /\ [][OneCitationOfParagraph =>
            /\ rpc' = "loop"
            /\ verified_count' = 1
            /\ partial_count' = 0
            /\ not_found_count' = 0
            /\ Len(verified_items') = 1
            /\ verified_items'[1].verification_status = "verified"
            /\ Len(verified_items'[1].citations) = 1
            /\ verified_items'[1].citations[1].source_paragraph =
                  JStr(<<"[", "s", "_", "0", "0", "0", "0", "]">>)
         ]_vars
    /\ [][(rpc = "loop" /\ loop_idx = PyLen(arguments)) =>
            /\ rpc' = "done"
            /\ result'.total_assertions = PyLen(arguments)
            /\ result'.verified_count = verified_count
            /\ result'.partial_count = partial_count
            /\ result'.not_found_count = not_found_count
            /\ result'.evidence_items = verified_items
         ]_vars

\* the run of C15 has returned
C15_Witness ==
    /\ rpc = "done"
    /\ description = SingleDocument
    /\ result.total_assertions = 1
    /\ result.verified_count = 1
    /\ result.partial_count = 0
    /\ result.not_found_count = 0
    /\ Len(result.evidence_items) = 1
    /\ result.evidence_items[1].verification_status = "verified"
    /\ Len(result.evidence_items[1].citations) = 1
    /\ result.evidence_items[1].citations[1].quote = SingleParagraph
    /\ result.evidence_items[1].citations[1].source_paragraph =
          JStr(<<"[", "s", "_", "0", "0", "0", "0", "]">>)

\* the assertion at position k of the parsed assertion list
AssertionAt(k) ==
    DictGet(IterItems(arguments)[k], "assertion", JStr(<<>>))

\* C16: in every ExtractionResult run returns, the items are in the order of
\* the assertions: of two items, the one of the earlier assertion of the
\* parsed list comes first
C16_ItemsInOrder ==
    rpc = "done" =>
        \A i, j \in 1..Len(result.evidence_items) :
            i < j =>
                \E a, b \in 1..Len(IterItems(arguments)) :
                    /\ a < b
                    /\ AssertionAt(a) = result.evidence_items[i].assertion
                    /\ AssertionAt(b) = result.evidence_items[j].assertion

\* a returned run with the items of two assertions
C16_Witness ==
    /\ rpc = "done"
    /\ Len(result.evidence_items) = 2
    /\ result.evidence_items[1].assertion = JStr(AssertionName(1))
    /\ result.evidence_items[2].assertion = JStr(AssertionName(2))
    /\ result.evidence_items[1].shape # result.evidence_items[2].shape

\* the caller's interrupt has left the generation call in progress
Cancelled ==
    /\ rpc \in {"parse_call", "evidence_call"}
    /\ ipc = "raised"
    /\ iret = Raise("KeyboardInterrupt")

\* C18: when a cancellation arrives during a run, no further generation call
\* is started, run still returns an ExtractionResult holding the items of the
\* assertions completed before it, none of their outcomes discarded, and
\* errors holds a cancellation marker
C18_Cancellation ==
    /\ [][Cancelled =>
            /\ rpc' = "done"
            /\ calls' = calls
            /\ result'.evidence_items = verified_items
            /\ result'.verified_count = verified_count
            /\ result'.partial_count = partial_count
            /\ result'.not_found_count = not_found_count
            /\ Len(result'.errors) = Len(errors) + 1
            /\ SubSeq(result'.errors, 1, Len(errors)) = errors
         ]_vars
    /\ [][rpc = "done" => calls' = calls]_vars

----------------------------------------------------------------------------
(* Further claims about the generation call *)

\* the waits a call has made when each failed attempt that is followed by
\* another one is followed by a wait of InitialWait * 4^k, k its number from 0
BackoffWaits ==
    LET n == Len(outcomes)
        between == IF ipc = "attempting" THEN n ELSE IF n > 0 THEN n - 1 ELSE 0
    IN  [k \in 1..between |-> InitialWait * (4 ^ (k - 1))]

\* C21: after a retryable failure on attempt k, counted from 0, the call
\* waits the base times 4^k before attempt k+1 (2, 8, 32, 128 for the base
\* 2); a wait occurs only between two attempts, none after the final attempt
\* or a success
C21_Backoff == ipc # "idle" => waits = BackoffWaits

\* the call in progress for an assertion has returned a response from which
\* an object is extracted that does not report evidence
NoEvidenceReported ==
    /\ rpc = "evidence_call"
    /\ ipc = "returned"
    /\ iret.kind = "text"
    /\ Truthy(extract_json_from_text(iret.text))
    /\ IsDict(extract_json_from_text(iret.text))
    /\ ~Truthy(DictGet(extract_json_from_text(iret.text), "found", JNull))

\* C24: when the extracted response for an assertion reports that no
\* evidence was found, the assertion is counted once in not_found_count, an
\* item marking it as not found is added to the items, nothing is added to
\* errors, and no outcome of the verifier is taken for the assertion
C24_NoEvidencePath ==
    [][NoEvidenceReported =>
         /\ rpc' = "loop"
         /\ not_found_count' = not_found_count + 1
         /\ UNCHANGED <<verified_count, partial_count, errors, calls>>
         /\ Len(verified_items') = Len(verified_items) + 1
         /\ SubSeq(verified_items', 1, Len(verified_items)) = verified_items
         /\ LET item == verified_items'[Len(verified_items')]
            IN  /\ item.shape = "found_false"
                /\ item.assertion = AssertionAt(loop_idx)
                /\ item.citations = <<>>
                /\ item.verification_status = "none"
    ]_vars

\* a returned run whose only assertion was reported to have no evidence
C24_Witness ==
    /\ rpc = "done"
    /\ result.total_assertions = 1
    /\ result.not_found_count = 1
    /\ result.verified_count = 0
    /\ result.partial_count = 0
    /\ result.errors = <<>>
    /\ Len(result.evidence_items) = 1
    /\ result.evidence_items[1].shape = "found_false"
    /\ result.evidence_items[1].reason = JStr(<<"r">>)

\* the entries of errors that record the signal of a long list of assertions
QualitySignals(errs) ==
    {i \in 1..Len(errs) : errs[i] = ErrorEntry("Quality warning: High assertion count",
                                               Decimal(PyLen(arguments)))}

\* C25: a parsed response with more than 8 assertions, or with low
\* confidence, leaves what the run returns as it is without the signal: the
\* errors of the run hold entries of failures only, none for the signal
C25_SignalOnlyRecorded ==
    rpc \in {"loop", "evidence_call", "done"} => QualitySignals(errors) = {}

\* C26: in every result run returns, verified_count + partial_count +
\* not_found_count = total_assertions: each assertion the loop has gone
\* through incremented exactly one counter, and a result returned before the
\* loop carries four zeros
C26_CounterInvariant ==
    /\ rpc \in {"loop", "evidence_call"} =>
          verified_count + partial_count + not_found_count = loop_idx
                - (IF rpc = "evidence_call" THEN 1 ELSE 0)
    /\ rpc = "done" =>
          /\ result.verified_count + result.partial_count
                + result.not_found_count = result.total_assertions
          /\ arguments = JNull =>
                /\ result.total_assertions = 0
                /\ result.verified_count = 0
                /\ result.partial_count = 0
                /\ result.not_found_count = 0

\* a returned run of two assertions, one a partial match and one whose
\* generation call failed
C26_Witness ==
    /\ rpc = "done"
    /\ result.total_assertions = 2
    /\ result.partial_count = 1
    /\ result.not_found_count = 1
    /\ result.verified_count = 0
    /\ Len(result.errors) = 1
    /\ Len(result.evidence_items) = 1

\* the call in progress for an assertion has returned and the assertion gets
\* no item: the call returned None after its attempts, no JSON is extracted
\* from the response, or the response reports evidence with an empty list
NoEntryCase ==
    \/ iret.kind # "text"
    \/ ~Truthy(extract_json_from_text(iret.text))
    \/ /\ IsDict(extract_json_from_text(iret.text))
       /\ Truthy(DictGet(extract_json_from_text(iret.text), "found", JNull))
       /\ ~Truthy(DictGet(extract_json_from_text(iret.text), "evidence",
                          JList(<<>>)))

\* C27: evidence_items holds at most one entry per parsed assertion, so
\* len(evidence_items) <= total_assertions; an assertion has no entry exactly
\* when its call exhausted its retries, its response yielded no extractable
\* JSON or reported found with an empty evidence list, and every other
\* assertion has exactly one entry
C27_ItemsVersusAssertions ==
    /\ [](rpc = "done" =>
            Len(result.evidence_items) <= result.total_assertions)
    /\ [](rpc \in {"loop", "evidence_call"} =>
            Len(verified_items) <= loop_idx)
    /\ [][rpc = "evidence_call" /\ ipc = "returned" /\ rpc' = "loop" =>
            IF NoEntryCase
            THEN verified_items' = verified_items
            ELSE /\ Len(verified_items') = Len(verified_items) + 1
                 /\ SubSeq(verified_items', 1, Len(verified_items))
                       = verified_items
                 /\ verified_items'[Len(verified_items')].assertion
                       = AssertionAt(loop_idx)
         ]_vars

\* a returned run of two assertions without errors: one has a verified item,
\* the other was reported found with an empty evidence list and has none
C27_Witness ==
    /\ rpc = "done"
    /\ result.total_assertions = 2
    /\ result.errors = <<>>
    /\ result.not_found_count = 1
    /\ result.verified_count = 1
    /\ Len(result.evidence_items) = 1
    /\ result.evidence_items[1].assertion = AssertionAt(2)

----------------------------------------------------------------------------
(* Soundness of the verifier                                               *)

\* C28: whenever verify returns Verified with segment id X, X is the id of a
\* segment of the given sequence whose whitespace-normalized text contains
\* the whitespace-normalized quote, and no segment earlier in the sequence
\* contains the normalized quote
C28_VerifiedSound ==
    (vpc = "done" /\ vresult.status = "verified") =>
        /\ \E i \in SegIndexes : Contains(NormQuote, NormText(i))
        /\ vresult.source_id = given_segments[FirstContaining].id

\* a quote Verified in the second of two segments with different ids, the
\* first of which does not hold it
C28_Witness ==
    /\ vpc = "done"
    /\ vresult.status = "verified"
    /\ NormQuote # <<>>
    /\ Len(given_segments) = 2
    /\ given_segments[1].id # given_segments[2].id
    /\ ~Contains(NormQuote, NormText(1))
    /\ vresult.source_id = given_segments[2].id

\* C29: verify of an empty or whitespace-only quote never returns Verified,
\* whatever the segments are
C29_EmptyQuoteNeverVerified ==
    (vpc = "done" /\ NormQuote = <<>>) => vresult.status # "verified"

----------------------------------------------------------------------------
(* Claims about load_patent_b                                              *)

\* C30: the evidence file written for a document holds only results of runs
\* on that document; results of documents processed earlier in the same
\* call never appear in it
C30_Isolation ==
    \A k \in DOMAIN evidence_files :
        evidence_files[k].written =>
            \A i \in 1..Len(evidence_files[k].content) :
                evidence_files[k].content[i].doc = k

====
